---------------------------- MODULE Spec2Model ----------------------------
(***************************************************************************)
(* A model of the token-swap program (constant-product / constant-price    *)
(* automated market maker): the curve calculators, the SwapCurve           *)
(* orchestrator and the processor's instructions.                          *)
(*                                                                         *)
(* Two specifications share the module.  CurveSpec draws the arguments of  *)
(* one call of the pure curve functions from bounded sets and applies the  *)
(* functions to them.  Spec is the processor: one pool (its swap-state     *)
(* account, its two reserve token accounts and its pool mint) driven by    *)
(* the six instructions.                                                   *)
(*                                                                         *)
(* Amounts are u64 / u128 in the program.  Every amount of the model stays *)
(* far below 2^64, so no checked_mul / checked_add of the program can      *)
(* overflow in the modelled range; checked_sub, checked_div and            *)
(* checked_rem fail exactly as in the program.                             *)
(***************************************************************************)
EXTENDS Integers, Sequences, FiniteSets, TLC

VARIABLES
    swap_info,   \* the swap-state account: SwapV1 {is_initialized, fees, swap_curve}
    token_a,     \* amount held by the pool's token A account
    token_b,     \* amount held by the pool's token B account
    pool_mint,   \* supply of the pool-token mint
    steps,       \* instructions committed so far
    last,        \* the instruction that has just run: arguments, result, token instructions issued
    inp,         \* CurveSpec: the arguments of the curve call
    out          \* CurveSpec: the function applied and what it returned

vars == <<swap_info, token_a, token_b, pool_mint, steps, last, inp, out>>

---------------------------------------------------------------------------
(* Bounds of the model.                                                    *)

MaxAmount == 2
MaxReserve == 4
MaxPrice == 2
MaxSteps == 3

---------------------------------------------------------------------------
(* Option<T>.                                                              *)

None == [some |-> FALSE]
Some(v) == [some |-> TRUE, val |-> v]
IsSome(o) == o.some

Max(a, b) == IF a >= b THEN a ELSE b
Min(a, b) == IF a <= b THEN a ELSE b

(* The model's integers are 32-bit, the program's 128-bit: a product is     *)
(* never formed when it would leave the 32-bit range.  Quotients at or      *)
(* above ModelRange are reported as ModelRange; the processor's actions are *)
(* guarded so that no such amount is ever used.                             *)
ModelRange == (1024 * 1024 * 1024 - 1) * 2 + 1

SatAdd(x, y) == IF x >= ModelRange - y THEN ModelRange ELSE x + y

RECURSIVE MulQR(_, _, _)
(* <<floor(a*b / c), (a*b) mod c>> for c > 0: a.checked_mul(b) followed by  *)
(* checked_div(c) / checked_rem(c).                                         *)
MulQR(a, b, c) ==
    IF a = 0 \/ b = 0 THEN <<0, 0>>
    ELSE IF a <= 46340 /\ b <= 46340 THEN <<(a * b) \div c, (a * b) % c>>
    ELSE IF a < b THEN MulQR(b, a, c)
    ELSE LET h == MulQR(a, b \div 2, c)
             dq == SatAdd(h[1], h[1])
             dc == h[2] >= c - h[2]
             q2 == IF dc THEN SatAdd(dq, 1) ELSE dq
             r2 == IF dc THEN h[2] - (c - h[2]) ELSE h[2] + h[2]
             qa == a \div c
             ra == a % c
             ac == r2 >= c - ra
         IN  IF b % 2 = 0 THEN <<q2, r2>>
             ELSE <<SatAdd(SatAdd(q2, qa), IF ac THEN 1 ELSE 0),
                    IF ac THEN r2 - (c - ra) ELSE r2 + ra>>

(* a.checked_mul(b)?.checked_div(c) *)
MulDiv(a, b, c) == IF c = 0 THEN None ELSE Some(MulQR(a, b, c)[1])
(* a.checked_mul(b)?.checked_rem(c) *)
MulRem(a, b, c) == IF c = 0 THEN None ELSE Some(MulQR(a, b, c)[2])

---------------------------------------------------------------------------
(* curve/calculator.rs                                                     *)

INITIAL_SWAP_POOL_AMOUNT == 1000000000

map_zero_to_none(x) == IF x = 0 THEN None ELSE Some(x)

TradeDirections == {"AtoB", "BtoA"}
opposite(d) == IF d = "AtoB" THEN "BtoA" ELSE "AtoB"

(* the division without the ceiling: the quotient rounded down *)
checked_floor_div(a, b) ==
    IF b = 0 THEN None
    ELSE IF a \div b = 0 THEN None
    ELSE Some(<<a \div b, b>>)

(* spl_math::checked_ceil_div::CheckedCeilDiv (u128 and U256): the pair     *)
(* (ceiling quotient, smallest divisor that still gives that quotient);     *)
(* no result for a zero divisor or a zero quotient.                         *)
checked_ceil_div(a, b) ==
    IF b = 0 THEN None
    ELSE IF a \div b = 0 THEN None
    ELSE IF a % b > 0
         THEN LET q == (a \div b) + 1
              IN  Some(<<q, IF a % q > 0 THEN (a \div q) + 1 ELSE a \div q>>)
         ELSE Some(<<a \div b, b>>)

(* pool_supply.checked_mul(given)?.checked_ceil_div(total), the product     *)
(* never formed.                                                            *)
MulCeilDiv(a, b, c) ==
    IF c = 0 THEN None
    ELSE LET qr == MulQR(a, b, c)
         IN  IF qr[1] = 0 THEN None
             ELSE Some(IF qr[2] > 0 THEN SatAdd(qr[1], 1) ELSE qr[1])

---------------------------------------------------------------------------
(* curve/fees.rs is not among the sources: the fee schedule follows the     *)
(* specification, section 4.2.                                              *)

NoFee == [trade_fee_numerator |-> 0, trade_fee_denominator |-> 0,
          owner_trade_fee_numerator |-> 0, owner_trade_fee_denominator |-> 0,
          owner_withdraw_fee_numerator |-> 0, owner_withdraw_fee_denominator |-> 0,
          host_fee_numerator |-> 0, host_fee_denominator |-> 0]

(* floor(amount * numerator / denominator); a zero denominator disables     *)
(* the fee.                                                                 *)
calculate_fee(amount, numerator, denominator) ==
    IF denominator = 0 THEN Some(0) ELSE MulDiv(amount, numerator, denominator)

trading_fee(fees, amount) ==
    calculate_fee(amount, fees.trade_fee_numerator, fees.trade_fee_denominator)
owner_trading_fee(fees, amount) ==
    calculate_fee(amount, fees.owner_trade_fee_numerator, fees.owner_trade_fee_denominator)
owner_withdraw_fee(fees, amount) ==
    calculate_fee(amount, fees.owner_withdraw_fee_numerator, fees.owner_withdraw_fee_denominator)
host_fee(fees, amount) ==
    calculate_fee(amount, fees.host_fee_numerator, fees.host_fee_denominator)

(* Fees::validate: every fee that is not disabled has numerator <=          *)
(* denominator.                                                             *)
validate_fraction(numerator, denominator) ==
    (numerator = 0 /\ denominator = 0) \/ numerator <= denominator
fees_validate(fees) ==
    /\ validate_fraction(fees.trade_fee_numerator, fees.trade_fee_denominator)
    /\ validate_fraction(fees.owner_trade_fee_numerator, fees.owner_trade_fee_denominator)
    /\ validate_fraction(fees.owner_withdraw_fee_numerator, fees.owner_withdraw_fee_denominator)
    /\ validate_fraction(fees.host_fee_numerator, fees.host_fee_denominator)

---------------------------------------------------------------------------
(* curve/constant_product.rs                                               *)

(* swap with the destination reserve rounded down: a plain division in     *)
(* place of checked_ceil_div.                                               *)
swap_floor_div(source_amount, swap_source_amount, swap_destination_amount) ==
    LET invariant == swap_source_amount * swap_destination_amount
        new_swap_source_amount == swap_source_amount + source_amount
        new_swap_destination_amount == invariant \div new_swap_source_amount
    IN  IF new_swap_source_amount = 0 THEN None
        ELSE IF swap_destination_amount = new_swap_destination_amount THEN None
        ELSE Some([source_amount_swapped |-> source_amount,
                   destination_amount_swapped |->
                       swap_destination_amount - new_swap_destination_amount])

(* swap that charges the whole source amount: the second component of      *)
(* checked_ceil_div is dropped.                                             *)
swap_keep_source(source_amount, swap_source_amount, swap_destination_amount) ==
    LET invariant == swap_source_amount * swap_destination_amount
        new_swap_source_amount == swap_source_amount + source_amount
        cd == checked_ceil_div(invariant, new_swap_source_amount)
    IN  IF ~IsSome(cd) THEN None
        ELSE IF swap_destination_amount <= cd.val[1] THEN None
        ELSE Some([source_amount_swapped |-> source_amount,
                   destination_amount_swapped |-> swap_destination_amount - cd.val[1]])

(* swap without map_zero_to_none on the destination amount *)
swap_zero_allowed(source_amount, swap_source_amount, swap_destination_amount) ==
    LET invariant == swap_source_amount * swap_destination_amount
        new_swap_source_amount == swap_source_amount + source_amount
        cd == checked_ceil_div(invariant, new_swap_source_amount)
    IN  IF ~IsSome(cd) THEN None
        ELSE IF cd.val[2] < swap_source_amount THEN None
        ELSE IF swap_destination_amount < cd.val[1] THEN None
        ELSE Some([source_amount_swapped |-> cd.val[2] - swap_source_amount,
                   destination_amount_swapped |-> swap_destination_amount - cd.val[1]])

(* constant product swap, x * y = constant *)
swap(source_amount, swap_source_amount, swap_destination_amount) ==
    LET invariant == swap_source_amount * swap_destination_amount
        new_swap_source_amount == swap_source_amount + source_amount
        cd == checked_ceil_div(invariant, new_swap_source_amount)
    IN  IF ~IsSome(cd) THEN None
        ELSE IF cd.val[2] < swap_source_amount THEN None
        ELSE IF swap_destination_amount < cd.val[1] THEN None
        ELSE IF ~IsSome(map_zero_to_none(swap_destination_amount - cd.val[1])) THEN None
        ELSE Some([source_amount_swapped |-> cd.val[2] - swap_source_amount,
                   destination_amount_swapped |-> swap_destination_amount - cd.val[1]])

(* spl_math::precise_number::PreciseNumber is a 12-decimal fixed-point      *)
(* number over U256, far outside the model's integers.  The balancer        *)
(* formula pool_supply * (1 - sqrt(1 - ratio)) is therefore modelled by the *)
(* envelope r/2 <= 1 - sqrt(1 - r) <= r that holds for every ratio r in     *)
(* [0, 1]: root_pick chooses which end of the envelope the fixed-point      *)
(* computation lands on.  No result when the reserve is 0 (checked_div),    *)
(* when ratio > 1 (checked_sub) or when 1 - ratio = 0 (sqrt of a base below *)
(* the crate's minimum).                                                    *)
RootPicks == {"low", "high"}

withdraw_single_token_type_exact_out(source_amount, swap_token_a_amount, swap_token_b_amount, pool_supply, trade_direction, round_direction, root_pick) ==
    LET swap_source_amount == IF trade_direction = "AtoB" THEN swap_token_a_amount
                              ELSE swap_token_b_amount
        divisor == IF root_pick = "low" THEN swap_source_amount + swap_source_amount
                   ELSE swap_source_amount
        qr == MulQR(pool_supply, source_amount, divisor)
    IN  IF swap_source_amount = 0 THEN None
        ELSE IF source_amount >= swap_source_amount THEN None
        ELSE IF round_direction = "Ceiling" /\ qr[2] > 0 THEN Some(SatAdd(qr[1], 1))
        ELSE Some(qr[1])

RoundDirections == {"Floor", "Ceiling"}

(* the conversion with the token B amount taken from the token A reserve *)
pool_tokens_to_trading_tokens_b_from_a(pool_tokens, pool_token_supply, swap_token_a_amount, swap_token_b_amount, round_direction) ==
    LET token_a_amount == MulDiv(pool_tokens, swap_token_a_amount, pool_token_supply)
    IN  IF ~IsSome(token_a_amount) THEN None
        ELSE Some([token_a_amount |-> token_a_amount.val,
                   token_b_amount |-> token_a_amount.val])

(* the conversion with a Ceiling that adds one for every non-zero remainder *)
pool_tokens_to_trading_tokens_plain_ceiling(pool_tokens, pool_token_supply, swap_token_a_amount, swap_token_b_amount, round_direction) ==
    LET a == MulQR(pool_tokens, swap_token_a_amount, pool_token_supply)
        b == MulQR(pool_tokens, swap_token_b_amount, pool_token_supply)
    IN  IF pool_token_supply = 0 THEN None
        ELSE IF round_direction = "Floor"
        THEN Some([token_a_amount |-> a[1], token_b_amount |-> b[1]])
        ELSE Some([token_a_amount |-> IF a[2] > 0 THEN SatAdd(a[1], 1) ELSE a[1],
                   token_b_amount |-> IF b[2] > 0 THEN SatAdd(b[1], 1) ELSE b[1]])

(* the conversion with the two rounding directions exchanged: Floor rounds  *)
(* up and Ceiling rounds down                                               *)
pool_tokens_to_trading_tokens_directions_exchanged(pool_tokens, pool_token_supply, swap_token_a_amount, swap_token_b_amount, round_direction) ==
    LET a == MulQR(pool_tokens, swap_token_a_amount, pool_token_supply)
        b == MulQR(pool_tokens, swap_token_b_amount, pool_token_supply)
    IN  IF pool_token_supply = 0 THEN None
        ELSE IF round_direction = "Ceiling"
        THEN Some([token_a_amount |-> a[1], token_b_amount |-> b[1]])
        ELSE Some([token_a_amount |-> IF a[2] > 0 /\ a[1] > 0 THEN SatAdd(a[1], 1) ELSE a[1],
                   token_b_amount |-> IF b[2] > 0 /\ b[1] > 0 THEN SatAdd(b[1], 1) ELSE b[1]])

pool_tokens_to_trading_tokens(pool_tokens, pool_token_supply, swap_token_a_amount, swap_token_b_amount, round_direction) ==
    LET token_a_amount == MulDiv(pool_tokens, swap_token_a_amount, pool_token_supply)
        token_b_amount == MulDiv(pool_tokens, swap_token_b_amount, pool_token_supply)
        token_a_remainder == MulRem(pool_tokens, swap_token_a_amount, pool_token_supply)
        token_b_remainder == MulRem(pool_tokens, swap_token_b_amount, pool_token_supply)
    IN  IF ~IsSome(token_a_amount) \/ ~IsSome(token_b_amount) THEN None
        ELSE IF round_direction = "Floor"
        THEN Some([token_a_amount |-> token_a_amount.val,
                   token_b_amount |-> token_b_amount.val])
        ELSE Some([token_a_amount |->
                       IF token_a_remainder.val > 0 /\ token_a_amount.val > 0
                       THEN SatAdd(token_a_amount.val, 1) ELSE token_a_amount.val,
                   token_b_amount |->
                       IF token_b_remainder.val > 0 /\ token_b_amount.val > 0
                       THEN SatAdd(token_b_amount.val, 1) ELSE token_b_amount.val])

(* ConstantProductCurve::deposit_single_token_type is not among the         *)
(* sources.  Specification, section 4.3: "Constant-product reuses the       *)
(* general ratio formula below with floor rounding": the pool tokens that   *)
(* stand to the supply as the deposit stands to the reserve of its side.    *)
ConstantProductCurve_deposit_single_token_type(source_amount, swap_token_a_amount, swap_token_b_amount, pool_supply, trade_direction) ==
    MulDiv(pool_supply, source_amount,
           IF trade_direction = "AtoB" THEN swap_token_a_amount ELSE swap_token_b_amount)

---------------------------------------------------------------------------
(* curve/constant_price.rs                                                 *)

(* the conversion with a token B deposit counted at the price of token A *)
trading_tokens_to_pool_tokens_unpriced(token_b_price, source_amount, swap_token_a_amount, swap_token_b_amount, pool_supply, trade_direction, round_direction) ==
    LET total_value == swap_token_b_amount * token_b_price + swap_token_a_amount
    IN  IF round_direction = "Floor"
        THEN MulDiv(pool_supply, source_amount, total_value)
        ELSE MulCeilDiv(pool_supply, source_amount, total_value)

trading_tokens_to_pool_tokens(token_b_price, source_amount, swap_token_a_amount, swap_token_b_amount, pool_supply, trade_direction, round_direction) ==
    LET given_value == IF trade_direction = "AtoB" THEN source_amount
                       ELSE source_amount * token_b_price
        total_value == swap_token_b_amount * token_b_price + swap_token_a_amount
    IN  IF round_direction = "Floor"
        THEN MulDiv(pool_supply, given_value, total_value)
        ELSE MulCeilDiv(pool_supply, given_value, total_value)

ConstantPriceCurve_validate(token_b_price) ==
    IF token_b_price = 0 THEN "InvalidCurve" ELSE "Ok"

(* the constant-price swap without map_zero_to_none on the destination      *)
(* amount                                                                   *)
ConstantPriceCurve_swap_zero_allowed(token_b_price, source_amount, trade_direction) ==
    LET destination_amount_swapped ==
            IF trade_direction = "BtoA" THEN source_amount * token_b_price
            ELSE source_amount \div token_b_price
    IN  IF trade_direction = "AtoB" /\ token_b_price = 0 THEN None
        ELSE IF source_amount = 0 THEN None
        ELSE Some([source_amount_swapped |-> source_amount,
                   destination_amount_swapped |-> destination_amount_swapped])

ConstantPriceCurve_swap_remainder_charged(token_b_price, source_amount, trade_direction) ==
    LET destination_amount_swapped ==
            IF trade_direction = "BtoA" THEN source_amount * token_b_price
            ELSE source_amount \div token_b_price
    IN  IF trade_direction = "AtoB" /\ token_b_price = 0 THEN None
        ELSE IF ~IsSome(map_zero_to_none(source_amount)) THEN None
        ELSE IF ~IsSome(map_zero_to_none(destination_amount_swapped)) THEN None
        ELSE Some([source_amount_swapped |-> source_amount,
                   destination_amount_swapped |-> destination_amount_swapped])

ConstantPriceCurve_swap_without_fees(token_b_price, source_amount, trade_direction) ==
    LET destination_amount_swapped ==
            IF trade_direction = "BtoA" THEN source_amount * token_b_price
            ELSE source_amount \div token_b_price
        remainder == source_amount % token_b_price
        source_amount_swapped ==
            IF trade_direction = "BtoA" THEN source_amount
            ELSE IF remainder > 0 THEN source_amount - remainder ELSE source_amount
    IN  IF trade_direction = "AtoB" /\ token_b_price = 0 THEN None
        ELSE IF ~IsSome(map_zero_to_none(source_amount_swapped)) THEN None
        ELSE IF ~IsSome(map_zero_to_none(destination_amount_swapped)) THEN None
        ELSE Some([source_amount_swapped |-> source_amount_swapped,
                   destination_amount_swapped |-> destination_amount_swapped])

(* PreciseNumber::new(value) followed by to_imprecise() gives value back.   *)
(* The branch that halves each side first is taken when the token B value   *)
(* is within u64::MAX of u128::MAX, which no amount of the model is.        *)
normalized_value(token_b_price, swap_token_a_amount, swap_token_b_amount) ==
    LET swap_token_b_value == swap_token_b_amount * token_b_price
    IN  Some((swap_token_a_amount + swap_token_b_value) \div 2)

ConstantPriceCurve_pool_tokens_to_trading_tokens(token_b_price, pool_tokens, pool_token_supply, swap_token_a_amount, swap_token_b_amount, round_direction) ==
    LET total_value == normalized_value(token_b_price, swap_token_a_amount,
                                        swap_token_b_amount).val
    IN  IF round_direction = "Floor"
        THEN LET token_a_amount == MulDiv(pool_tokens, total_value, pool_token_supply)
                 pool_value_as_token_b == MulDiv(pool_tokens, total_value, token_b_price)
             IN  IF ~IsSome(token_a_amount) THEN None
                 ELSE IF ~IsSome(pool_value_as_token_b) THEN None
                 ELSE Some([token_a_amount |-> token_a_amount.val,
                            token_b_amount |->
                                pool_value_as_token_b.val \div pool_token_supply])
        ELSE LET token_a_amount == MulCeilDiv(pool_tokens, total_value, pool_token_supply)
                 pool_value_as_token_b == MulCeilDiv(pool_tokens, total_value,
                                                     token_b_price)
                 token_b_amount == checked_ceil_div(pool_value_as_token_b.val,
                                                    pool_token_supply)
             IN  IF ~IsSome(token_a_amount) THEN None
                 ELSE IF ~IsSome(pool_value_as_token_b) THEN None
                 ELSE IF ~IsSome(token_b_amount) THEN None
                 ELSE Some([token_a_amount |-> token_a_amount.val,
                            token_b_amount |-> token_b_amount.val[1]])

ConstantPriceCurve_deposit_single_token_type(token_b_price, source_amount, swap_token_a_amount, swap_token_b_amount, pool_supply, trade_direction) ==
    trading_tokens_to_pool_tokens(token_b_price, source_amount, swap_token_a_amount,
                                  swap_token_b_amount, pool_supply, trade_direction, "Floor")

ConstantPriceCurve_withdraw_single_token_type_exact_out(token_b_price, source_amount, swap_token_a_amount, swap_token_b_amount, pool_supply, trade_direction) ==
    trading_tokens_to_pool_tokens(token_b_price, source_amount, swap_token_a_amount,
                                  swap_token_b_amount, pool_supply, trade_direction, "Ceiling")

ConstantPriceCurve_validate_supply(token_a_amount, token_b_amount) ==
    IF token_a_amount = 0 THEN "EmptySupply" ELSE "Ok"

---------------------------------------------------------------------------
(* The calculator behind a SwapCurve: Box<dyn CurveCalculator>.            *)

ConstantProductCurve == [calculator |-> "ConstantProductCurve", token_b_price |-> 0]
ConstantPriceCurve(p) == [calculator |-> "ConstantPriceCurve", token_b_price |-> p]

(* SwapCurve::default() *)
DefaultSwapCurve == [curve_type |-> "ConstantProduct", calculator |-> ConstantProductCurve]

(* validate_supply that looks at the token A amount alone *)
validate_supply_token_a_only(token_a_amount, token_b_amount) ==
    IF token_a_amount = 0 THEN "EmptySupply" ELSE "Ok"

(* CurveCalculator, default methods *)
validate_supply(token_a_amount, token_b_amount) ==
    IF token_a_amount = 0 THEN "EmptySupply"
    ELSE IF token_b_amount = 0 THEN "EmptySupply"
    ELSE "Ok"
new_pool_supply == INITIAL_SWAP_POOL_AMOUNT
allows_deposits == TRUE

(* dynamic dispatch on the calculator *)
calculator_swap_without_fees(c, source_amount, swap_source_amount, swap_destination_amount, trade_direction) ==
    IF c.calculator = "ConstantProductCurve"
    THEN swap(source_amount, swap_source_amount, swap_destination_amount)
    ELSE ConstantPriceCurve_swap_without_fees(c.token_b_price, source_amount, trade_direction)

calculator_withdraw_single_token_type_exact_out(c, source_amount, swap_token_a_amount, swap_token_b_amount, pool_supply, trade_direction, root_pick) ==
    IF c.calculator = "ConstantProductCurve"
    THEN withdraw_single_token_type_exact_out(source_amount, swap_token_a_amount,
             swap_token_b_amount, pool_supply, trade_direction, "Ceiling", root_pick)
    ELSE ConstantPriceCurve_withdraw_single_token_type_exact_out(c.token_b_price,
             source_amount, swap_token_a_amount, swap_token_b_amount, pool_supply,
             trade_direction)

calculator_deposit_single_token_type(c, source_amount, swap_token_a_amount, swap_token_b_amount, pool_supply, trade_direction) ==
    IF c.calculator = "ConstantProductCurve"
    THEN ConstantProductCurve_deposit_single_token_type(source_amount,
             swap_token_a_amount, swap_token_b_amount, pool_supply, trade_direction)
    ELSE ConstantPriceCurve_deposit_single_token_type(c.token_b_price, source_amount,
             swap_token_a_amount, swap_token_b_amount, pool_supply, trade_direction)

calculator_pool_tokens_to_trading_tokens(c, pool_tokens, pool_token_supply, swap_token_a_amount, swap_token_b_amount, round_direction) ==
    IF c.calculator = "ConstantProductCurve"
    THEN pool_tokens_to_trading_tokens(pool_tokens, pool_token_supply,
             swap_token_a_amount, swap_token_b_amount, round_direction)
    ELSE ConstantPriceCurve_pool_tokens_to_trading_tokens(c.token_b_price, pool_tokens,
             pool_token_supply, swap_token_a_amount, swap_token_b_amount,
             round_direction)

calculator_validate_supply(c, token_a_amount, token_b_amount) ==
    IF c.calculator = "ConstantProductCurve"
    THEN validate_supply(token_a_amount, token_b_amount)
    ELSE ConstantPriceCurve_validate_supply(token_a_amount, token_b_amount)

(* ConstantProductCurve::validate is not among the sources; the curve has   *)
(* no parameter to reject (specification, section 4.3).                     *)
calculator_validate(c) ==
    IF c.calculator = "ConstantProductCurve" THEN "Ok"
    ELSE ConstantPriceCurve_validate(c.token_b_price)

---------------------------------------------------------------------------
(* curve/calculator.rs, mod test                                           *)

CONVERSION_BASIS_POINTS_GUARANTEE == 50

(* the run of check_deposit_token_conversion that an unwrap() of no result  *)
(* or a subtraction below zero stopped                                      *)
Panicked == [completed |-> FALSE]

(* check_deposit_token_conversion: the pool tokens of a one-sided deposit   *)
(* against those of a swap of half the amount followed by a deposit of each *)
(* side; passed is the assertion at its end.                                *)
check_deposit_token_conversion(curve, source_token_amount, swap_source_amount, swap_destination_amount, trade_direction, pool_supply, epsilon_in_basis_points) ==
    LET amount_to_swap == source_token_amount \div 2
        results == calculator_swap_without_fees(curve, amount_to_swap,
                       swap_source_amount, swap_destination_amount, trade_direction)
        opposite_direction == opposite(trade_direction)
        pool_tokens_from_one_side ==
            calculator_deposit_single_token_type(curve, source_token_amount,
                IF trade_direction = "AtoB" THEN swap_source_amount
                ELSE swap_destination_amount,
                IF trade_direction = "AtoB" THEN swap_destination_amount
                ELSE swap_source_amount,
                pool_supply, trade_direction)
        new_source == swap_source_amount + results.val.source_amount_swapped
        new_destination == swap_destination_amount
                               - results.val.destination_amount_swapped
        swap_token_a_amount == IF trade_direction = "AtoB" THEN new_source
                               ELSE new_destination
        swap_token_b_amount == IF trade_direction = "AtoB" THEN new_destination
                               ELSE new_source
        pool_tokens_from_source ==
            calculator_deposit_single_token_type(curve,
                source_token_amount - results.val.source_amount_swapped,
                swap_token_a_amount, swap_token_b_amount, pool_supply, trade_direction)
        pool_tokens_from_destination ==
            calculator_deposit_single_token_type(curve,
                results.val.destination_amount_swapped,
                swap_token_a_amount, swap_token_b_amount,
                SatAdd(pool_supply, pool_tokens_from_source.val), opposite_direction)
        pool_tokens_total_separate ==
            SatAdd(pool_tokens_from_source.val, pool_tokens_from_destination.val)
        epsilon == Max(1, MulDiv(pool_tokens_total_separate, epsilon_in_basis_points,
                                 10000).val)
        difference ==
            IF pool_tokens_from_one_side.val >= pool_tokens_total_separate
            THEN pool_tokens_from_one_side.val - pool_tokens_total_separate
            ELSE pool_tokens_total_separate - pool_tokens_from_one_side.val
    IN  IF ~IsSome(results) THEN Panicked
        ELSE IF ~IsSome(pool_tokens_from_one_side) THEN Panicked
        ELSE IF swap_destination_amount < results.val.destination_amount_swapped
        THEN Panicked
        ELSE IF source_token_amount < results.val.source_amount_swapped THEN Panicked
        ELSE IF ~IsSome(pool_tokens_from_source) THEN Panicked
        ELSE IF ~IsSome(pool_tokens_from_destination) THEN Panicked
        ELSE [completed |-> TRUE,
              pool_tokens_from_one_side |-> pool_tokens_from_one_side.val,
              pool_tokens_total_separate |-> pool_tokens_total_separate,
              epsilon |-> epsilon,
              difference |-> difference,
              passed |-> difference <= epsilon]

---------------------------------------------------------------------------
(* curve/base.rs                                                           *)

(* SwapCurve::swap that does not add the fees back to the source amount     *)
(* the swap that saturates the new destination reserve at 0 in place of the *)
(* checked subtraction                                                      *)
SwapCurve_swap_destination_saturated(swap_curve, source_amount, swap_source_amount, swap_destination_amount, trade_direction, fees) ==
    LET trade_fee == trading_fee(fees, source_amount)
        owner_fee == owner_trading_fee(fees, source_amount)
        total_fees == trade_fee.val + owner_fee.val
        r == calculator_swap_without_fees(swap_curve.calculator, source_amount - total_fees,
                 swap_source_amount, swap_destination_amount, trade_direction)
        source_amount_swapped == r.val.source_amount_swapped + total_fees
    IN  IF ~IsSome(trade_fee) \/ ~IsSome(owner_fee) THEN None
        ELSE IF source_amount < total_fees THEN None
        ELSE IF ~IsSome(r) THEN None
        ELSE Some([new_swap_source_amount |-> swap_source_amount + source_amount_swapped,
                   new_swap_destination_amount |->
                       Max(swap_destination_amount, r.val.destination_amount_swapped)
                           - r.val.destination_amount_swapped,
                   source_amount_swapped |-> source_amount_swapped,
                   destination_amount_swapped |-> r.val.destination_amount_swapped,
                   trade_fee |-> trade_fee.val,
                   owner_fee |-> owner_fee.val])

(* the swap that hands the whole source amount to the curve and charges the *)
(* fees on top                                                              *)
SwapCurve_swap_fees_on_top(swap_curve, source_amount, swap_source_amount, swap_destination_amount, trade_direction, fees) ==
    LET trade_fee == trading_fee(fees, source_amount)
        owner_fee == owner_trading_fee(fees, source_amount)
        total_fees == trade_fee.val + owner_fee.val
        r == calculator_swap_without_fees(swap_curve.calculator, source_amount,
                 swap_source_amount, swap_destination_amount, trade_direction)
        source_amount_swapped == r.val.source_amount_swapped + total_fees
    IN  IF ~IsSome(trade_fee) \/ ~IsSome(owner_fee) THEN None
        ELSE IF ~IsSome(r) THEN None
        ELSE IF swap_destination_amount < r.val.destination_amount_swapped THEN None
        ELSE Some([new_swap_source_amount |-> swap_source_amount + source_amount_swapped,
                   new_swap_destination_amount |->
                       swap_destination_amount - r.val.destination_amount_swapped,
                   source_amount_swapped |-> source_amount_swapped,
                   destination_amount_swapped |-> r.val.destination_amount_swapped,
                   trade_fee |-> trade_fee.val,
                   owner_fee |-> owner_fee.val])

SwapCurve_swap_owner_fee_on_remainder(swap_curve, source_amount, swap_source_amount, swap_destination_amount, trade_direction, fees) ==
    LET trade_fee == trading_fee(fees, source_amount)
        owner_fee == owner_trading_fee(fees, source_amount - trade_fee.val)
        total_fees == trade_fee.val + owner_fee.val
        r == calculator_swap_without_fees(swap_curve.calculator, source_amount - total_fees,
                 swap_source_amount, swap_destination_amount, trade_direction)
        source_amount_swapped == r.val.source_amount_swapped + total_fees
    IN  IF ~IsSome(trade_fee) THEN None
        ELSE IF source_amount < trade_fee.val THEN None
        ELSE IF ~IsSome(owner_fee) THEN None
        ELSE IF source_amount < total_fees THEN None
        ELSE IF ~IsSome(r) THEN None
        ELSE IF swap_destination_amount < r.val.destination_amount_swapped THEN None
        ELSE Some([new_swap_source_amount |-> swap_source_amount + source_amount_swapped,
                   new_swap_destination_amount |->
                       swap_destination_amount - r.val.destination_amount_swapped,
                   source_amount_swapped |-> source_amount_swapped,
                   destination_amount_swapped |-> r.val.destination_amount_swapped,
                   trade_fee |-> trade_fee.val,
                   owner_fee |-> owner_fee.val])

SwapCurve_swap_fees_dropped(swap_curve, source_amount, swap_source_amount, swap_destination_amount, trade_direction, fees) ==
    LET trade_fee == trading_fee(fees, source_amount)
        owner_fee == owner_trading_fee(fees, source_amount)
        total_fees == trade_fee.val + owner_fee.val
        r == calculator_swap_without_fees(swap_curve.calculator, source_amount - total_fees,
                 swap_source_amount, swap_destination_amount, trade_direction)
    IN  IF ~IsSome(trade_fee) \/ ~IsSome(owner_fee) THEN None
        ELSE IF source_amount < total_fees THEN None
        ELSE IF ~IsSome(r) THEN None
        ELSE IF swap_destination_amount < r.val.destination_amount_swapped THEN None
        ELSE Some([new_swap_source_amount |->
                       swap_source_amount + r.val.source_amount_swapped,
                   new_swap_destination_amount |->
                       swap_destination_amount - r.val.destination_amount_swapped,
                   source_amount_swapped |-> r.val.source_amount_swapped,
                   destination_amount_swapped |-> r.val.destination_amount_swapped,
                   trade_fee |-> trade_fee.val,
                   owner_fee |-> owner_fee.val])

SwapCurve_swap(swap_curve, source_amount, swap_source_amount, swap_destination_amount, trade_direction, fees) ==
    LET trade_fee == trading_fee(fees, source_amount)
        owner_fee == owner_trading_fee(fees, source_amount)
        total_fees == trade_fee.val + owner_fee.val
        source_amount_less_fees == source_amount - total_fees
        r == calculator_swap_without_fees(swap_curve.calculator, source_amount_less_fees,
                 swap_source_amount, swap_destination_amount, trade_direction)
        source_amount_swapped == r.val.source_amount_swapped + total_fees
    IN  IF ~IsSome(trade_fee) \/ ~IsSome(owner_fee) THEN None
        ELSE IF source_amount < total_fees THEN None
        ELSE IF ~IsSome(r) THEN None
        ELSE IF swap_destination_amount < r.val.destination_amount_swapped THEN None
        ELSE Some([new_swap_source_amount |-> swap_source_amount + source_amount_swapped,
                   new_swap_destination_amount |->
                       swap_destination_amount - r.val.destination_amount_swapped,
                   source_amount_swapped |-> source_amount_swapped,
                   destination_amount_swapped |-> r.val.destination_amount_swapped,
                   trade_fee |-> trade_fee.val,
                   owner_fee |-> owner_fee.val])

(* the withdrawal with the trading fee taken on the whole source amount *)
SwapCurve_withdraw_fee_on_whole_amount(swap_curve, source_amount, swap_token_a_amount, swap_token_b_amount, pool_supply, trade_direction, fees, root_pick) ==
    LET trade_fee == trading_fee(fees, source_amount)
    IN  IF source_amount = 0 THEN Some(0)
        ELSE IF ~IsSome(trade_fee) THEN None
        ELSE IF source_amount < trade_fee.val THEN None
        ELSE calculator_withdraw_single_token_type_exact_out(swap_curve.calculator,
                 source_amount - trade_fee.val, swap_token_a_amount, swap_token_b_amount,
                 pool_supply, trade_direction, root_pick)

SwapCurve_withdraw_single_token_type_exact_out(swap_curve, source_amount, swap_token_a_amount, swap_token_b_amount, pool_supply, trade_direction, fees, root_pick) ==
    LET half_source_amount == Max(1, source_amount \div 2)
        trade_fee == trading_fee(fees, half_source_amount)
    IN  IF source_amount = 0 THEN Some(0)
        ELSE IF ~IsSome(trade_fee) THEN None
        ELSE IF source_amount < trade_fee.val THEN None
        ELSE calculator_withdraw_single_token_type_exact_out(swap_curve.calculator,
                 source_amount - trade_fee.val, swap_token_a_amount, swap_token_b_amount,
                 pool_supply, trade_direction, root_pick)

(* SwapCurve::deposit_single_token_type is called by the processor and is   *)
(* not among the sources; the specification describes no fee step for a     *)
(* single-sided deposit, so the call is handed to the calculator as it is.  *)
SwapCurve_deposit_single_token_type(swap_curve, source_amount, swap_token_a_amount, swap_token_b_amount, pool_supply, trade_direction, fees) ==
    calculator_deposit_single_token_type(swap_curve.calculator, source_amount,
        swap_token_a_amount, swap_token_b_amount, pool_supply, trade_direction)

---------------------------------------------------------------------------
(* Values the inputs are drawn from.                                       *)

Fees(tn, td, on, od, wn, wd, hn, hd) ==
    [trade_fee_numerator |-> tn, trade_fee_denominator |-> td,
     owner_trade_fee_numerator |-> on, owner_trade_fee_denominator |-> od,
     owner_withdraw_fee_numerator |-> wn, owner_withdraw_fee_denominator |-> wd,
     host_fee_numerator |-> hn, host_fee_denominator |-> hd]

(* trade fee 30/10000 and owner fee 0/10000 *)
ThirtyBasisPoints == Fees(30, 10000, 0, 10000, 0, 0, 0, 0)
(* every fee large enough to be non-zero on the amounts of the model *)
QuarterFees == Fees(1, 4, 1, 2, 1, 4, 1, 2)
(* trade fee and owner fee of 100% each: together more than the amount *)
FullFees == Fees(1, 1, 1, 1, 0, 0, 0, 0)
(* a trade fee above 100%, which Fees::validate rejects *)
InvalidFees == Fees(2, 1, 0, 0, 0, 0, 0, 0)

FeeSchedules == {NoFee, ThirtyBasisPoints, QuarterFees, FullFees, InvalidFees}

Calculators == {ConstantProductCurve} \cup {ConstantPriceCurve(p) : p \in 0..MaxPrice}
SwapCurves == {[curve_type |-> "ConstantProduct", calculator |-> c] : c \in Calculators}

Amounts == 0..MaxAmount \cup {5, 100}
Reserves == 0..MaxReserve \cup {1000}
Supplies == {0, 3, INITIAL_SWAP_POOL_AMOUNT}

---------------------------------------------------------------------------
(* CurveSpec: one call of a curve function on arguments drawn from the     *)
(* sets above.                                                             *)

Idle == [op |-> "none"]

Uninitialized == [is_initialized |-> FALSE, fees |-> NoFee, swap_curve |-> DefaultSwapCurve]

NoInstruction == [op |-> "none", result |-> "none", issued |-> <<>>]

NoInput == [swap_curve |-> DefaultSwapCurve, fees |-> NoFee, source_amount |-> 0,
            swap_source_amount |-> 0, swap_destination_amount |-> 0,
            trade_direction |-> "AtoB", pool_supply |-> 0]

(* the reserves of a call, as token A and token B *)
inp_token_a == IF inp.trade_direction = "AtoB" THEN inp.swap_source_amount
               ELSE inp.swap_destination_amount
inp_token_b == IF inp.trade_direction = "AtoB" THEN inp.swap_destination_amount
               ELSE inp.swap_source_amount

CurveInit ==
    /\ inp \in [swap_curve : SwapCurves, fees : FeeSchedules, source_amount : Amounts,
                swap_source_amount : Reserves, swap_destination_amount : Reserves,
                trade_direction : TradeDirections, pool_supply : Supplies]
    /\ out = Idle
    /\ swap_info = Uninitialized
    /\ token_a = 0
    /\ token_b = 0
    /\ pool_mint = 0
    /\ steps = 0
    /\ last = NoInstruction

PoolUnchanged == UNCHANGED <<swap_info, token_a, token_b, pool_mint, steps, last>>

CallSwap ==
    /\ out' = [op |-> "swap",
               res |-> SwapCurve_swap(inp.swap_curve, inp.source_amount,
                           inp.swap_source_amount, inp.swap_destination_amount,
                           inp.trade_direction, inp.fees)]
    /\ UNCHANGED inp
    /\ PoolUnchanged

CallSwapWithoutFees ==
    /\ out' = [op |-> "swap_without_fees",
               res |-> calculator_swap_without_fees(inp.swap_curve.calculator,
                           inp.source_amount, inp.swap_source_amount,
                           inp.swap_destination_amount, inp.trade_direction)]
    /\ UNCHANGED inp
    /\ PoolUnchanged

CallDepositSingleTokenType ==
    /\ out' = [op |-> "deposit_single_token_type",
               res |-> calculator_deposit_single_token_type(inp.swap_curve.calculator,
                           inp.source_amount, inp_token_a, inp_token_b,
                           inp.pool_supply, inp.trade_direction)]
    /\ UNCHANGED inp
    /\ PoolUnchanged

(* pool_tokens is the call's source_amount *)
CallPoolTokensToTradingTokens ==
    \E round_direction \in RoundDirections :
        /\ out' = [op |-> "pool_tokens_to_trading_tokens",
                   round_direction |-> round_direction,
                   res |-> calculator_pool_tokens_to_trading_tokens(
                               inp.swap_curve.calculator, inp.source_amount,
                               inp.pool_supply, inp_token_a, inp_token_b,
                               round_direction)]
        /\ UNCHANGED inp
        /\ PoolUnchanged

(* the division of the constant-product swap: the invariant by the new     *)
(* source reserve                                                           *)
CallCheckedCeilDiv ==
    LET invariant == inp.swap_source_amount * inp.swap_destination_amount
        new_swap_source_amount == inp.swap_source_amount + inp.source_amount
    IN  /\ out' = [op |-> "checked_ceil_div", dividend |-> invariant,
                   divisor |-> new_swap_source_amount,
                   res |-> checked_ceil_div(invariant, new_swap_source_amount)]
        /\ UNCHANGED inp
        /\ PoolUnchanged

CallCheckDepositTokenConversion ==
    /\ out' = [op |-> "check_deposit_token_conversion",
               res |-> check_deposit_token_conversion(inp.swap_curve.calculator,
                           inp.source_amount, inp.swap_source_amount,
                           inp.swap_destination_amount, inp.trade_direction,
                           inp.pool_supply, CONVERSION_BASIS_POINTS_GUARANTEE)]
    /\ UNCHANGED inp
    /\ PoolUnchanged

CallWithdrawSingleTokenTypeExactOut ==
    \E root_pick \in RootPicks :
        /\ out' = [op |-> "withdraw_single_token_type_exact_out",
                   root_pick |-> root_pick,
                   res |-> SwapCurve_withdraw_single_token_type_exact_out(inp.swap_curve,
                               inp.source_amount, inp_token_a, inp_token_b,
                               inp.pool_supply, inp.trade_direction, inp.fees,
                               root_pick)]
        /\ UNCHANGED inp
        /\ PoolUnchanged

CurveNext ==
    \/ CallSwap
    \/ CallSwapWithoutFees
    \/ CallDepositSingleTokenType
    \/ CallPoolTokensToTradingTokens
    \/ CallCheckedCeilDiv
    \/ CallCheckDepositTokenConversion
    \/ CallWithdrawSingleTokenTypeExactOut

CurveSpec == CurveInit /\ [][CurveNext]_vars

---------------------------------------------------------------------------
(* constraints.rs                                                          *)

OWNER_KEY == "AFe99p6byLxYfEV9E1nNumSeKdtgXm2HL5Gy5dN6icj9"
FEES == Fees(0, 10000, 5, 10000, 0, 0, 20, 100)
VALID_CURVE_TYPES == {"ConstantProduct"}

(* SWAP_CONSTRAINTS: None, or this value under the "production" feature *)
ProductionConstraints ==
    [owner_key |-> OWNER_KEY, valid_curve_types |-> VALID_CURVE_TYPES, fees |-> FEES]
SWAP_CONSTRAINTS == {None, Some(ProductionConstraints)}

validate_curve(constraints, swap_curve) ==
    IF swap_curve.curve_type \in constraints.valid_curve_types
    THEN "Ok" ELSE "UnsupportedCurveType"

(* validate_fees with a floor in place of the equality of the host numerator *)
validate_fees_host_floor(constraints, fees) ==
    IF /\ fees.trade_fee_numerator >= constraints.fees.trade_fee_numerator
       /\ fees.trade_fee_denominator = constraints.fees.trade_fee_denominator
       /\ fees.owner_trade_fee_numerator >= constraints.fees.owner_trade_fee_numerator
       /\ fees.owner_trade_fee_denominator = constraints.fees.owner_trade_fee_denominator
       /\ fees.owner_withdraw_fee_numerator >= constraints.fees.owner_withdraw_fee_numerator
       /\ fees.owner_withdraw_fee_denominator = constraints.fees.owner_withdraw_fee_denominator
       /\ fees.host_fee_numerator >= constraints.fees.host_fee_numerator
       /\ fees.host_fee_denominator = constraints.fees.host_fee_denominator
    THEN "Ok" ELSE "InvalidFee"

validate_fees(constraints, fees) ==
    IF /\ fees.trade_fee_numerator >= constraints.fees.trade_fee_numerator
       /\ fees.trade_fee_denominator = constraints.fees.trade_fee_denominator
       /\ fees.owner_trade_fee_numerator >= constraints.fees.owner_trade_fee_numerator
       /\ fees.owner_trade_fee_denominator = constraints.fees.owner_trade_fee_denominator
       /\ fees.owner_withdraw_fee_numerator >= constraints.fees.owner_withdraw_fee_numerator
       /\ fees.owner_withdraw_fee_denominator = constraints.fees.owner_withdraw_fee_denominator
       /\ fees.host_fee_numerator = constraints.fees.host_fee_numerator
       /\ fees.host_fee_denominator = constraints.fees.host_fee_denominator
    THEN "Ok" ELSE "InvalidFee"

---------------------------------------------------------------------------
(* processor.rs                                                            *)
(*                                                                         *)
(* An instruction is a function of the accounts it is handed: the swap     *)
(* state (token_swap), the amounts of the pool's two token accounts        *)
(* (token_a_amount, token_b_amount) and the supply of the pool mint.  It   *)
(* returns its result and the token-program instructions it issued, in     *)
(* order, up to the point where it returned.  The caller's own accounts    *)
(* are taken to hold whatever the instruction asks of them.                *)

Transfer(source, destination, amount) ==
    [ix |-> "transfer", source |-> source, destination |-> destination, amount |-> amount]
MintTo(destination, amount) ==
    [ix |-> "mint_to", source |-> "pool_mint", destination |-> destination, amount |-> amount]
Burn(burn_account, amount) ==
    [ix |-> "burn", source |-> burn_account, destination |-> "pool_mint", amount |-> amount]

Returned(result, issued) == [result |-> result, issued |-> issued]

swap_token(trade_direction) ==
    IF trade_direction = "AtoB" THEN "swap_token_a" ELSE "swap_token_b"
user_token(trade_direction) ==
    IF trade_direction = "AtoB" THEN "user_token_a" ELSE "user_token_b"

(* 1) checks, 2) mints the initial supply to the destination, 3) writes the *)
(* state into the swap_info account                                         *)
process_initialize(token_a_amount, token_b_amount, fee_account_owner, fees, swap_curve, swap_constraints) ==
    IF calculator_validate_supply(swap_curve.calculator, token_a_amount, token_b_amount) # "Ok"
    THEN Returned(calculator_validate_supply(swap_curve.calculator,
                      token_a_amount, token_b_amount), <<>>)
    ELSE IF IsSome(swap_constraints) /\ fee_account_owner # swap_constraints.val.owner_key
    THEN Returned("InvalidOwner", <<>>)
    ELSE IF IsSome(swap_constraints) /\ validate_curve(swap_constraints.val, swap_curve) # "Ok"
    THEN Returned("UnsupportedCurveType", <<>>)
    ELSE IF IsSome(swap_constraints) /\ validate_fees(swap_constraints.val, fees) # "Ok"
    THEN Returned("InvalidFee", <<>>)
    ELSE IF ~fees_validate(fees) THEN Returned("InvalidFee", <<>>)
    ELSE IF calculator_validate(swap_curve.calculator) # "Ok"
    THEN Returned(calculator_validate(swap_curve.calculator), <<>>)
    ELSE Returned("Ok", <<MintTo("destination", new_pool_supply)>>)

(* the fee mints with the host fee minted on top of the owner's amount *)
swap_fee_mints_host_on_top(fees, pool_token_amount, host) ==
    IF pool_token_amount = 0 THEN <<>>
    ELSE IF host # "none" /\ host_fee(fees, pool_token_amount).val > 0
    THEN <<MintTo("host_fee_account", host_fee(fees, pool_token_amount).val),
           MintTo("pool_fee_account", pool_token_amount)>>
    ELSE <<MintTo("pool_fee_account", pool_token_amount)>>

(* the host-fee and owner-fee mints of a swap *)
swap_fee_mints(fees, pool_token_amount, host) ==
    IF pool_token_amount = 0 THEN <<>>
    ELSE IF host # "none" /\ host_fee(fees, pool_token_amount).val > 0
    THEN <<MintTo("host_fee_account", host_fee(fees, pool_token_amount).val),
           MintTo("pool_fee_account",
                  pool_token_amount - host_fee(fees, pool_token_amount).val)>>
    ELSE <<MintTo("pool_fee_account", pool_token_amount)>>

(* the swap without the comparison with minimum_amount_out *)
process_swap_unbounded(token_swap, token_a_amount, token_b_amount, pool_mint_supply, amount_in, minimum_amount_out, trade_direction, host, root_pick) ==
    LET source_amount == IF trade_direction = "AtoB" THEN token_a_amount ELSE token_b_amount
        dest_amount == IF trade_direction = "AtoB" THEN token_b_amount ELSE token_a_amount
        result == SwapCurve_swap(token_swap.swap_curve, amount_in, source_amount,
                      dest_amount, trade_direction, token_swap.fees)
        swap_token_a_amount == IF trade_direction = "AtoB"
                               THEN result.val.new_swap_source_amount
                               ELSE result.val.new_swap_destination_amount
        swap_token_b_amount == IF trade_direction = "AtoB"
                               THEN result.val.new_swap_destination_amount
                               ELSE result.val.new_swap_source_amount
        transfer_in == Transfer(user_token(trade_direction), swap_token(trade_direction),
                           result.val.source_amount_swapped)
        pool_token_amount ==
            SwapCurve_withdraw_single_token_type_exact_out(token_swap.swap_curve,
                result.val.owner_fee, swap_token_a_amount, swap_token_b_amount,
                pool_mint_supply, trade_direction, token_swap.fees, root_pick)
        transfer_out == Transfer(swap_token(opposite(trade_direction)),
                            user_token(opposite(trade_direction)),
                            result.val.destination_amount_swapped)
    IN  IF ~token_swap.is_initialized THEN Returned("UninitializedAccount", <<>>)
        ELSE IF ~IsSome(result) THEN Returned("ZeroTradingTokens", <<>>)
        ELSE IF ~IsSome(pool_token_amount)
        THEN Returned("FeeCalculationFailure", <<transfer_in>>)
        ELSE IF pool_token_amount.val > 0 /\ host = "other_mint"
        THEN Returned("IncorrectPoolMint", <<transfer_in>>)
        ELSE IF /\ pool_token_amount.val > 0
                /\ host # "none"
                /\ \/ ~IsSome(host_fee(token_swap.fees, pool_token_amount.val))
                   \/ host_fee(token_swap.fees, pool_token_amount.val).val
                          > pool_token_amount.val
        THEN Returned("FeeCalculationFailure", <<transfer_in>>)
        ELSE Returned("Ok",
                 <<transfer_in>>
                 \o swap_fee_mints(token_swap.fees, pool_token_amount.val, host)
                 \o <<transfer_out>>)

process_swap(token_swap, token_a_amount, token_b_amount, pool_mint_supply, amount_in, minimum_amount_out, trade_direction, host, root_pick) ==
    LET source_amount == IF trade_direction = "AtoB" THEN token_a_amount ELSE token_b_amount
        dest_amount == IF trade_direction = "AtoB" THEN token_b_amount ELSE token_a_amount
        result == SwapCurve_swap(token_swap.swap_curve, amount_in, source_amount,
                      dest_amount, trade_direction, token_swap.fees)
        swap_token_a_amount == IF trade_direction = "AtoB"
                               THEN result.val.new_swap_source_amount
                               ELSE result.val.new_swap_destination_amount
        swap_token_b_amount == IF trade_direction = "AtoB"
                               THEN result.val.new_swap_destination_amount
                               ELSE result.val.new_swap_source_amount
        transfer_in == Transfer(user_token(trade_direction), swap_token(trade_direction),
                           result.val.source_amount_swapped)
        pool_token_amount ==
            SwapCurve_withdraw_single_token_type_exact_out(token_swap.swap_curve,
                result.val.owner_fee, swap_token_a_amount, swap_token_b_amount,
                pool_mint_supply, trade_direction, token_swap.fees, root_pick)
        transfer_out == Transfer(swap_token(opposite(trade_direction)),
                            user_token(opposite(trade_direction)),
                            result.val.destination_amount_swapped)
    IN  IF ~token_swap.is_initialized THEN Returned("UninitializedAccount", <<>>)
        ELSE IF ~IsSome(result) THEN Returned("ZeroTradingTokens", <<>>)
        ELSE IF result.val.destination_amount_swapped < minimum_amount_out
        THEN Returned("ExceededSlippage", <<>>)
        ELSE IF ~IsSome(pool_token_amount)
        THEN Returned("FeeCalculationFailure", <<transfer_in>>)
        ELSE IF pool_token_amount.val > 0 /\ host = "other_mint"
        THEN Returned("IncorrectPoolMint", <<transfer_in>>)
        ELSE IF /\ pool_token_amount.val > 0
                /\ host # "none"
                /\ \/ ~IsSome(host_fee(token_swap.fees, pool_token_amount.val))
                   \/ host_fee(token_swap.fees, pool_token_amount.val).val
                          > pool_token_amount.val
        THEN Returned("FeeCalculationFailure", <<transfer_in>>)
        ELSE Returned("Ok",
                 <<transfer_in>>
                 \o swap_fee_mints(token_swap.fees, pool_token_amount.val, host)
                 \o <<transfer_out>>)

(* a first deposit that mints what the caller asked for *)
deposit_requested_pool_token_amount(pool_token_amount, current_pool_mint_supply) ==
    IF current_pool_mint_supply > 0
    THEN <<pool_token_amount, current_pool_mint_supply>>
    ELSE <<pool_token_amount, new_pool_supply>>

(* a first deposit measured against the empty supply *)
deposit_against_current_supply(pool_token_amount, current_pool_mint_supply) ==
    IF current_pool_mint_supply > 0
    THEN <<pool_token_amount, current_pool_mint_supply>>
    ELSE <<new_pool_supply, current_pool_mint_supply>>

(* the pool-token amount asked for and the supply it is measured against:   *)
(* both new_pool_supply() when the mint is empty                            *)
deposit_pool_token_amounts(pool_token_amount, current_pool_mint_supply) ==
    IF current_pool_mint_supply > 0
    THEN <<pool_token_amount, current_pool_mint_supply>>
    ELSE <<new_pool_supply, new_pool_supply>>

process_deposit_all_token_types(token_swap, token_a_amount, token_b_amount, pool_mint_supply, pool_token_amount, maximum_token_a_amount, maximum_token_b_amount) ==
    LET amounts == deposit_pool_token_amounts(pool_token_amount, pool_mint_supply)
        results == calculator_pool_tokens_to_trading_tokens(
                       token_swap.swap_curve.calculator, amounts[1], amounts[2],
                       token_a_amount, token_b_amount, "Ceiling")
    IN  IF ~token_swap.is_initialized THEN Returned("UninitializedAccount", <<>>)
        ELSE IF ~allows_deposits THEN Returned("UnsupportedCurveOperation", <<>>)
        ELSE IF ~IsSome(results) THEN Returned("ZeroTradingTokens", <<>>)
        ELSE IF results.val.token_a_amount > maximum_token_a_amount
        THEN Returned("ExceededSlippage", <<>>)
        ELSE IF results.val.token_a_amount = 0 THEN Returned("ZeroTradingTokens", <<>>)
        ELSE IF results.val.token_b_amount > maximum_token_b_amount
        THEN Returned("ExceededSlippage", <<>>)
        ELSE IF results.val.token_b_amount = 0 THEN Returned("ZeroTradingTokens", <<>>)
        ELSE Returned("Ok",
                 <<Transfer("user_token_a", "swap_token_a", results.val.token_a_amount),
                   Transfer("user_token_b", "swap_token_b", results.val.token_b_amount),
                   MintTo("user_pool_token", amounts[1])>>)

(* the account the pool tokens of a withdrawal come from *)
pool_token_source(from_fee_account) ==
    IF from_fee_account THEN "pool_fee_account" ELSE "user_pool_token"

(* the withdrawal that pays out on the amount before the fee *)
process_withdraw_all_payout_before_fee(token_swap, token_a_amount, token_b_amount, pool_mint_supply, pool_token_amount, minimum_token_a_amount, minimum_token_b_amount, from_fee_account) ==
    LET withdraw_fee == IF from_fee_account THEN Some(0)
                        ELSE owner_withdraw_fee(token_swap.fees, pool_token_amount)
        burn_amount == pool_token_amount - withdraw_fee.val
        results == calculator_pool_tokens_to_trading_tokens(
                       token_swap.swap_curve.calculator, pool_token_amount, pool_mint_supply,
                       token_a_amount, token_b_amount, "Floor")
        a_out == Min(token_a_amount, results.val.token_a_amount)
        b_out == Min(token_b_amount, results.val.token_b_amount)
        source == pool_token_source(from_fee_account)
        fee_transfer == IF withdraw_fee.val > 0
                        THEN <<Transfer(source, "pool_fee_account", withdraw_fee.val)>>
                        ELSE <<>>
    IN  IF ~token_swap.is_initialized THEN Returned("UninitializedAccount", <<>>)
        ELSE IF ~IsSome(withdraw_fee) THEN Returned("FeeCalculationFailure", <<>>)
        ELSE IF pool_token_amount < withdraw_fee.val THEN Returned("CalculationFailure", <<>>)
        ELSE IF ~IsSome(results) THEN Returned("ZeroTradingTokens", <<>>)
        ELSE IF a_out < minimum_token_a_amount THEN Returned("ExceededSlippage", <<>>)
        ELSE IF a_out = 0 /\ token_a_amount # 0 THEN Returned("ZeroTradingTokens", <<>>)
        ELSE IF b_out < minimum_token_b_amount THEN Returned("ExceededSlippage", <<>>)
        ELSE IF b_out = 0 /\ token_b_amount # 0 THEN Returned("ZeroTradingTokens", <<>>)
        ELSE IF burn_amount > pool_mint_supply
        THEN Returned("InsufficientFunds", fee_transfer)
        ELSE Returned("Ok",
                 fee_transfer
                 \o <<Burn(source, burn_amount)>>
                 \o (IF a_out > 0 THEN <<Transfer("swap_token_a", "user_token_a", a_out)>>
                     ELSE <<>>)
                 \o (IF b_out > 0 THEN <<Transfer("swap_token_b", "user_token_b", b_out)>>
                     ELSE <<>>))

process_withdraw_all_token_types(token_swap, token_a_amount, token_b_amount, pool_mint_supply, pool_token_amount, minimum_token_a_amount, minimum_token_b_amount, from_fee_account) ==
    LET withdraw_fee == IF from_fee_account THEN Some(0)
                        ELSE owner_withdraw_fee(token_swap.fees, pool_token_amount)
        burn_amount == pool_token_amount - withdraw_fee.val
        results == calculator_pool_tokens_to_trading_tokens(
                       token_swap.swap_curve.calculator, burn_amount, pool_mint_supply,
                       token_a_amount, token_b_amount, "Floor")
        a_out == Min(token_a_amount, results.val.token_a_amount)
        b_out == Min(token_b_amount, results.val.token_b_amount)
        source == pool_token_source(from_fee_account)
        fee_transfer == IF withdraw_fee.val > 0
                        THEN <<Transfer(source, "pool_fee_account", withdraw_fee.val)>>
                        ELSE <<>>
    IN  IF ~token_swap.is_initialized THEN Returned("UninitializedAccount", <<>>)
        ELSE IF ~IsSome(withdraw_fee) THEN Returned("FeeCalculationFailure", <<>>)
        ELSE IF pool_token_amount < withdraw_fee.val THEN Returned("CalculationFailure", <<>>)
        ELSE IF ~IsSome(results) THEN Returned("ZeroTradingTokens", <<>>)
        ELSE IF a_out < minimum_token_a_amount THEN Returned("ExceededSlippage", <<>>)
        ELSE IF a_out = 0 /\ token_a_amount # 0 THEN Returned("ZeroTradingTokens", <<>>)
        ELSE IF b_out < minimum_token_b_amount THEN Returned("ExceededSlippage", <<>>)
        ELSE IF b_out = 0 /\ token_b_amount # 0 THEN Returned("ZeroTradingTokens", <<>>)
        ELSE IF burn_amount > pool_mint_supply
        THEN Returned("InsufficientFunds", fee_transfer)
        ELSE Returned("Ok",
                 fee_transfer
                 \o <<Burn(source, burn_amount)>>
                 \o (IF a_out > 0 THEN <<Transfer("swap_token_a", "user_token_a", a_out)>>
                     ELSE <<>>)
                 \o (IF b_out > 0 THEN <<Transfer("swap_token_b", "user_token_b", b_out)>>
                     ELSE <<>>))

process_deposit_single_token_type_exact_amount_in(token_swap, token_a_amount, token_b_amount, pool_mint_supply, source_token_amount, minimum_pool_token_amount, trade_direction) ==
    LET pool_token_amount ==
            IF pool_mint_supply > 0
            THEN SwapCurve_deposit_single_token_type(token_swap.swap_curve,
                     source_token_amount, token_a_amount, token_b_amount,
                     pool_mint_supply, trade_direction, token_swap.fees)
            ELSE Some(new_pool_supply)
    IN  IF ~token_swap.is_initialized THEN Returned("UninitializedAccount", <<>>)
        ELSE IF ~IsSome(pool_token_amount) THEN Returned("ZeroTradingTokens", <<>>)
        ELSE IF pool_token_amount.val < minimum_pool_token_amount
        THEN Returned("ExceededSlippage", <<>>)
        ELSE Returned("Ok",
                 <<Transfer(user_token(trade_direction), swap_token(trade_direction),
                            source_token_amount),
                   MintTo("user_pool_token", pool_token_amount.val)>>)

process_withdraw_single_token_type_exact_amount_out(token_swap, token_a_amount, token_b_amount, pool_mint_supply, destination_token_amount, maximum_pool_token_amount, trade_direction, from_fee_account, root_pick) ==
    LET burn_pool_token_amount ==
            SwapCurve_withdraw_single_token_type_exact_out(token_swap.swap_curve,
                destination_token_amount, token_a_amount, token_b_amount,
                pool_mint_supply, trade_direction, token_swap.fees, root_pick)
        withdraw_fee == IF from_fee_account THEN Some(0)
                        ELSE owner_withdraw_fee(token_swap.fees, burn_pool_token_amount.val)
        pool_token_amount == SatAdd(burn_pool_token_amount.val, withdraw_fee.val)
        source == pool_token_source(from_fee_account)
        fee_transfer == IF withdraw_fee.val > 0
                        THEN <<Transfer(source, "pool_fee_account", withdraw_fee.val)>>
                        ELSE <<>>
        reserve == IF trade_direction = "AtoB" THEN token_a_amount ELSE token_b_amount
    IN  IF ~token_swap.is_initialized THEN Returned("UninitializedAccount", <<>>)
        ELSE IF ~IsSome(burn_pool_token_amount) THEN Returned("ZeroTradingTokens", <<>>)
        ELSE IF ~IsSome(withdraw_fee) THEN Returned("FeeCalculationFailure", <<>>)
        ELSE IF pool_token_amount > maximum_pool_token_amount
        THEN Returned("ExceededSlippage", <<>>)
        ELSE IF burn_pool_token_amount.val > pool_mint_supply
        THEN Returned("InsufficientFunds", fee_transfer)
        ELSE IF destination_token_amount > reserve
        THEN Returned("InsufficientFunds",
                 fee_transfer \o <<Burn(source, burn_pool_token_amount.val)>>)
        ELSE Returned("Ok",
                 fee_transfer
                 \o <<Burn(source, burn_pool_token_amount.val),
                      Transfer(swap_token(trade_direction), user_token(trade_direction),
                               destination_token_amount)>>)

---------------------------------------------------------------------------
(* Spec: one pool (a swap_info account, its two token accounts and its     *)
(* pool mint) under sequences of instructions.  The runtime commits the    *)
(* token-program instructions and the state write of an instruction that   *)
(* returns Ok and discards those of one that returns an error; last keeps  *)
(* what the instruction issued either way, and the accounts it started     *)
(* from.                                                                   *)

RECURSIVE Credit(_, _)
Credit(issued, account) ==
    IF issued = <<>> THEN 0
    ELSE (IF Head(issued).destination = account THEN Head(issued).amount ELSE 0)
         + Credit(Tail(issued), account)

RECURSIVE Debit(_, _)
Debit(issued, account) ==
    IF issued = <<>> THEN 0
    ELSE (IF Head(issued).source = account THEN Head(issued).amount ELSE 0)
         + Debit(Tail(issued), account)

(* values the instruction data and accounts are drawn from *)
(* a schedule the production constraints accept: trade fee 1/4, owner fee   *)
(* 1/2, no withdraw fee, host fee 20/100                                    *)
ProductionFees == Fees(2500, 10000, 5000, 10000, 0, 0, 20, 100)
InitializeFees == {QuarterFees, ProductionFees, InvalidFees}
FeeAccountOwners == {OWNER_KEY, "SomeoneElse"}
TokenAmounts == 0..MaxAmount
MinimumTokenAmounts == {0, 2}
MaximumTokenAmounts == {2, MaxReserve}
PoolTokenAmounts == {1, INITIAL_SWAP_POOL_AMOUNT \div 2, INITIAL_SWAP_POOL_AMOUNT}
PoolTokenLimits == {0, INITIAL_SWAP_POOL_AMOUNT}
HostFeeAccounts == {"none", "pool_mint", "other_mint"}

Init ==
    /\ swap_info = Uninitialized
    /\ token_a = 0
    /\ token_b = 0
    /\ pool_mint = 0
    /\ steps = 0
    /\ last = NoInstruction
    /\ inp = NoInput
    /\ out = Idle

(* An instruction starts when the one before it has returned. *)
Ready == last = NoInstruction

(* the accounts after an instruction that returned `returned`; steps counts *)
(* the instructions that were committed                                     *)
Commit(op, args, returned) ==
    /\ Ready
    /\ steps < MaxSteps
    /\ steps' = IF returned.result = "Ok" THEN steps + 1 ELSE steps
    /\ last' = [op |-> op, args |-> args, result |-> returned.result,
                issued |-> returned.issued,
                token_a |-> token_a, token_b |-> token_b, pool_mint |-> pool_mint]
    /\ IF returned.result = "Ok"
       THEN /\ Credit(returned.issued, "swap_token_a") <= MaxReserve - token_a
            /\ Credit(returned.issued, "swap_token_b") <= MaxReserve - token_b
            /\ Debit(returned.issued, "pool_mint") <= ModelRange - pool_mint
            /\ token_a' = token_a + Credit(returned.issued, "swap_token_a")
                              - Debit(returned.issued, "swap_token_a")
            /\ token_b' = token_b + Credit(returned.issued, "swap_token_b")
                              - Debit(returned.issued, "swap_token_b")
            /\ pool_mint' = pool_mint + Debit(returned.issued, "pool_mint")
                                - Credit(returned.issued, "pool_mint")
       ELSE UNCHANGED <<token_a, token_b, pool_mint>>
    /\ UNCHANGED <<inp, out>>

Initialize ==
    \E fees \in InitializeFees, fee_account_owner \in FeeAccountOwners,
       swap_constraints \in SWAP_CONSTRAINTS :
        LET returned == process_initialize(token_a, token_b, fee_account_owner, fees,
                            DefaultSwapCurve, swap_constraints)
        IN  /\ Commit("initialize",
                   [fees |-> fees, swap_curve |-> DefaultSwapCurve], returned)
            /\ swap_info' = IF returned.result = "Ok"
                            THEN [is_initialized |-> TRUE, fees |-> fees,
                                  swap_curve |-> DefaultSwapCurve]
                            ELSE swap_info

SwapTokens ==
    \E amount_in \in TokenAmounts, minimum_amount_out \in MinimumTokenAmounts,
       trade_direction \in TradeDirections, host \in HostFeeAccounts,
       root_pick \in RootPicks :
        /\ Commit("swap",
               [amount_in |-> amount_in, minimum_amount_out |-> minimum_amount_out,
                trade_direction |-> trade_direction, host |-> host],
               process_swap(swap_info, token_a, token_b, pool_mint, amount_in,
                   minimum_amount_out, trade_direction, host, root_pick))
        /\ UNCHANGED swap_info

DepositAllTokenTypes ==
    \E pool_token_amount \in PoolTokenAmounts,
       maximum_token_a_amount \in MaximumTokenAmounts,
       maximum_token_b_amount \in MaximumTokenAmounts :
        /\ Commit("deposit_all_token_types",
               [pool_token_amount |-> pool_token_amount,
                maximum_token_a_amount |-> maximum_token_a_amount,
                maximum_token_b_amount |-> maximum_token_b_amount],
               process_deposit_all_token_types(swap_info, token_a, token_b, pool_mint,
                   pool_token_amount, maximum_token_a_amount, maximum_token_b_amount))
        /\ UNCHANGED swap_info

WithdrawAllTokenTypes ==
    \E pool_token_amount \in PoolTokenAmounts,
       minimum_token_a_amount \in MinimumTokenAmounts,
       minimum_token_b_amount \in MinimumTokenAmounts,
       from_fee_account \in BOOLEAN :
        /\ Commit("withdraw_all_token_types",
               [pool_token_amount |-> pool_token_amount,
                minimum_token_a_amount |-> minimum_token_a_amount,
                minimum_token_b_amount |-> minimum_token_b_amount,
                from_fee_account |-> from_fee_account],
               process_withdraw_all_token_types(swap_info, token_a, token_b, pool_mint,
                   pool_token_amount, minimum_token_a_amount, minimum_token_b_amount,
                   from_fee_account))
        /\ UNCHANGED swap_info

DepositSingleTokenTypeExactAmountIn ==
    \E source_token_amount \in TokenAmounts,
       minimum_pool_token_amount \in PoolTokenLimits,
       trade_direction \in TradeDirections :
        /\ Commit("deposit_single_token_type_exact_amount_in",
               [source_token_amount |-> source_token_amount,
                minimum_pool_token_amount |-> minimum_pool_token_amount,
                trade_direction |-> trade_direction],
               process_deposit_single_token_type_exact_amount_in(swap_info, token_a,
                   token_b, pool_mint, source_token_amount, minimum_pool_token_amount,
                   trade_direction))
        /\ UNCHANGED swap_info

WithdrawSingleTokenTypeExactAmountOut ==
    \E destination_token_amount \in TokenAmounts,
       maximum_pool_token_amount \in PoolTokenLimits,
       trade_direction \in TradeDirections, from_fee_account \in BOOLEAN,
       root_pick \in RootPicks :
        /\ Commit("withdraw_single_token_type_exact_amount_out",
               [destination_token_amount |-> destination_token_amount,
                maximum_pool_token_amount |-> maximum_pool_token_amount,
                trade_direction |-> trade_direction,
                from_fee_account |-> from_fee_account],
               process_withdraw_single_token_type_exact_amount_out(swap_info, token_a,
                   token_b, pool_mint, destination_token_amount,
                   maximum_pool_token_amount, trade_direction, from_fee_account,
                   root_pick))
        /\ UNCHANGED swap_info

(* The pool's token accounts are funded with the token program itself       *)
(* while no pool token is outstanding: before Initialize, and again after   *)
(* everything was withdrawn.                                                *)
FundTokenAccount ==
    \E account \in {"swap_token_a", "swap_token_b"}, amount \in 1..MaxAmount :
        /\ Ready
        /\ pool_mint = 0
        /\ token_a' = token_a + (IF account = "swap_token_a" THEN amount ELSE 0)
        /\ token_b' = token_b + (IF account = "swap_token_b" THEN amount ELSE 0)
        /\ token_a' <= MaxReserve
        /\ token_b' <= MaxReserve
        /\ last' = NoInstruction
        /\ UNCHANGED <<swap_info, pool_mint, steps, inp, out>>

(* the instruction returns its result to the runtime: an error aborts the   *)
(* transaction, which leaves every account as it was                        *)
Return ==
    /\ last # NoInstruction
    /\ last' = NoInstruction
    /\ UNCHANGED <<swap_info, token_a, token_b, pool_mint, steps, inp, out>>

Next ==
    \/ Initialize
    \/ SwapTokens
    \/ DepositAllTokenTypes
    \/ WithdrawAllTokenTypes
    \/ DepositSingleTokenTypeExactAmountIn
    \/ WithdrawSingleTokenTypeExactAmountOut
    \/ FundTokenAccount
    \/ Return

Spec == Init /\ [][Next]_vars

---------------------------------------------------------------------------
(* Program pack: curve/base.rs, curve/constant_product.rs and              *)
(* curve/constant_price.rs.  A byte buffer is a sequence of numbers in     *)
(* 0..255; index 1 is the byte at offset 0.                                *)

(* Result<T, ProgramError> *)
Ok(v) == [ok |-> TRUE, val |-> v]
Err(e) == [ok |-> FALSE, err |-> e]

(* u64::to_le_bytes, the n low bytes *)
RECURSIVE to_le_bytes(_, _)
to_le_bytes(v, n) ==
    IF n = 0 THEN <<>> ELSE <<v % 256>> \o to_le_bytes(v \div 256, n - 1)

(* u64::from_le_bytes *)
RECURSIVE from_le_bytes(_)
from_le_bytes(bytes) ==
    IF bytes = <<>> THEN 0 ELSE Head(bytes) + 256 * from_le_bytes(Tail(bytes))

(* SwapCurve::LEN *)
SwapCurve_LEN == 33

(* curve_type as u8: ConstantProduct is the enum's only variant *)
CurveType_as_u8(curve_type) == 0

(* TryFrom<u8> for CurveType *)
CurveType_try_from(curve_type) ==
    IF curve_type = 0 THEN Ok("ConstantProduct") ELSE Err("InvalidAccountData")

(* DynPack for ConstantProductCurve: writes nothing *)
ConstantProductCurve_pack_into_slice(output) == output

(* DynPack for ConstantPriceCurve: the price in the first 8 bytes *)
ConstantPriceCurve_pack_into_slice(token_b_price, output) ==
    to_le_bytes(token_b_price, 8) \o SubSeq(output, 9, Len(output))

(* self.calculator.pack_into_slice(..), dispatched on the calculator *)
calculator_pack_into_slice(c, output) ==
    IF c.calculator = "ConstantProductCurve"
    THEN ConstantProductCurve_pack_into_slice(output)
    ELSE ConstantPriceCurve_pack_into_slice(c.token_b_price, output)

ConstantProductCurve_unpack_from_slice(input) == Ok(ConstantProductCurve)

ConstantPriceCurve_unpack_from_slice(input) ==
    Ok(ConstantPriceCurve(from_le_bytes(SubSeq(input, 1, 8))))

(* Pack for SwapCurve: the buffer after the curve was written into it *)
SwapCurve_pack_into_slice(swap_curve, output) ==
    <<CurveType_as_u8(swap_curve.curve_type)>>
        \o calculator_pack_into_slice(swap_curve.calculator,
                                      SubSeq(output, 2, SwapCurve_LEN))

SwapCurve_unpack_from_slice(input) ==
    LET curve_type == CurveType_try_from(input[1])
        calculator == ConstantProductCurve_unpack_from_slice(
                          SubSeq(input, 2, SwapCurve_LEN))
    IN  IF ~curve_type.ok THEN curve_type
        ELSE IF ~calculator.ok THEN calculator
        ELSE Ok([curve_type |-> curve_type.val, calculator |-> calculator.val])

(* [0u8; Self::LEN] *)
ZeroBuffer == [i \in 1..SwapCurve_LEN |-> 0]

(* PartialEq for SwapCurve: equal when they pack to the same bytes *)
SwapCurve_eq(self, other) ==
    SwapCurve_pack_into_slice(self, ZeroBuffer)
        = SwapCurve_pack_into_slice(other, ZeroBuffer)

---------------------------------------------------------------------------
(* PackSpec: a SwapCurve and a 33-byte buffer; the curve is packed into    *)
(* the buffer, the buffer is unpacked, or the packed curve is unpacked     *)
(* again.                                                                  *)

(* prices of one byte and of two *)
PackPrices == 0..MaxPrice \cup {513}
PackCurves == {[curve_type |-> "ConstantProduct", calculator |-> c] :
                   c \in {ConstantProductCurve}
                         \cup {ConstantPriceCurve(p) : p \in PackPrices}}

(* a buffer of a tag byte, a little-endian rate and 24 bytes of padding *)
Descriptor(tag, rate, padding) ==
    <<tag>> \o to_le_bytes(rate, 8) \o [i \in 1..24 |-> padding]
Buffers == {Descriptor(tag, rate, padding) :
                tag \in {0, 1, 2, 255}, rate \in PackPrices, padding \in {0, 255}}

PackInit ==
    /\ inp \in [swap_curve : PackCurves, dst : Buffers]
    /\ out = Idle
    /\ swap_info = Uninitialized
    /\ token_a = 0
    /\ token_b = 0
    /\ pool_mint = 0
    /\ steps = 0
    /\ last = NoInstruction

CallPackIntoSlice ==
    /\ out.op = "none"
    /\ out' = [op |-> "pack_into_slice",
               output |-> SwapCurve_pack_into_slice(inp.swap_curve, inp.dst)]
    /\ UNCHANGED inp
    /\ PoolUnchanged

CallUnpackFromSlice ==
    /\ out.op = "none"
    /\ out' = [op |-> "unpack_from_slice", input |-> inp.dst,
               res |-> SwapCurve_unpack_from_slice(inp.dst)]
    /\ UNCHANGED inp
    /\ PoolUnchanged

(* the buffer the curve was packed into is unpacked *)
CallUnpackPacked ==
    /\ out.op = "pack_into_slice"
    /\ out' = [op |-> "pack_unpack", packed |-> out.output,
               res |-> SwapCurve_unpack_from_slice(out.output)]
    /\ UNCHANGED inp
    /\ PoolUnchanged

PackNext ==
    \/ CallPackIntoSlice
    \/ CallUnpackFromSlice
    \/ CallUnpackPacked

PackSpec == PackInit /\ [][PackNext]_vars

---------------------------------------------------------------------------
(* RoundTripSpec: an initialized pool with pool tokens outstanding, in     *)
(* which a caller deposits both tokens for some pool tokens and then       *)
(* withdraws both tokens for the same number of pool tokens.  last is the  *)
(* instruction that returned last, as in Spec; out keeps the deposit while *)
(* the withdrawal runs.                                                    *)

RoundTripFees == {ProductionFees, QuarterFees}
RoundTripSupplies == 1..(MaxAmount + 1) \cup {1000}
RoundTripPoolTokens == 1..MaxAmount \cup {100}

RoundTripInit ==
    /\ swap_info \in {[is_initialized |-> TRUE, fees |-> fees,
                       swap_curve |-> DefaultSwapCurve] : fees \in RoundTripFees}
    /\ token_a \in Reserves
    /\ token_b \in Reserves
    /\ pool_mint \in RoundTripSupplies
    /\ steps = 0
    /\ last = NoInstruction
    /\ inp = NoInput
    /\ out = Idle

(* the accounts after an instruction that returned `returned`, which moves  *)
(* amounts the model's integers hold                                        *)
RoundTripCommit(op, args, returned) ==
    /\ last' = [op |-> op, args |-> args, result |-> returned.result,
                issued |-> returned.issued,
                token_a |-> token_a, token_b |-> token_b, pool_mint |-> pool_mint]
    /\ IF returned.result = "Ok"
       THEN /\ Credit(returned.issued, "swap_token_a") < ModelRange - token_a
            /\ Credit(returned.issued, "swap_token_b") < ModelRange - token_b
            /\ Debit(returned.issued, "pool_mint") < ModelRange - pool_mint
            /\ token_a' = token_a + Credit(returned.issued, "swap_token_a")
                              - Debit(returned.issued, "swap_token_a")
            /\ token_b' = token_b + Credit(returned.issued, "swap_token_b")
                              - Debit(returned.issued, "swap_token_b")
            /\ pool_mint' = pool_mint + Debit(returned.issued, "pool_mint")
                                - Credit(returned.issued, "pool_mint")
            /\ steps' = steps + 1
       ELSE UNCHANGED <<token_a, token_b, pool_mint, steps>>
    /\ UNCHANGED <<swap_info, inp>>

RoundTripDeposit ==
    \E pool_token_amount \in RoundTripPoolTokens :
        /\ steps = 0
        /\ last = NoInstruction
        /\ RoundTripCommit("deposit_all_token_types",
               [pool_token_amount |-> pool_token_amount,
                maximum_token_a_amount |-> ModelRange,
                maximum_token_b_amount |-> ModelRange],
               process_deposit_all_token_types(swap_info, token_a, token_b, pool_mint,
                   pool_token_amount, ModelRange, ModelRange))
        /\ UNCHANGED out

RoundTripWithdraw ==
    /\ steps = 1
    /\ last.op = "deposit_all_token_types"
    /\ RoundTripCommit("withdraw_all_token_types",
           [pool_token_amount |-> last.args.pool_token_amount,
            minimum_token_a_amount |-> 0, minimum_token_b_amount |-> 0,
            from_fee_account |-> FALSE],
           process_withdraw_all_token_types(swap_info, token_a, token_b, pool_mint,
               last.args.pool_token_amount, 0, 0, FALSE))
    /\ out' = last

RoundTripNext ==
    \/ RoundTripDeposit
    \/ RoundTripWithdraw

RoundTripSpec == RoundTripInit /\ [][RoundTripNext]_vars

---------------------------------------------------------------------------
(* InitializeSpec: process_initialize called once on token accounts that    *)
(* hold any amounts, with either curve, a fee schedule and constraints that *)
(* are absent or present.                                                   *)

(* constraints that accept no curve type, and constraints whose fees are    *)
(* the quarter schedule                                                     *)
NoCurveConstraints ==
    [owner_key |-> OWNER_KEY, valid_curve_types |-> {}, fees |-> FEES]
QuarterConstraints ==
    [owner_key |-> OWNER_KEY, valid_curve_types |-> VALID_CURVE_TYPES, fees |-> QuarterFees]
InitializeConstraints ==
    SWAP_CONSTRAINTS \cup {Some(NoCurveConstraints), Some(QuarterConstraints)}

(* schedules at the floor of FEES and of the quarter schedule, and one field *)
(* below, above or beside it at a time                                      *)
InitializeSchedules ==
    {QuarterFees, ProductionFees, InvalidFees, FEES,
     Fees(0, 10000, 4, 10000, 0, 0, 20, 100), Fees(0, 10000, 5, 10000, 0, 0, 10, 100),
     Fees(0, 4, 1, 2, 1, 4, 1, 2), Fees(2, 4, 1, 2, 1, 4, 1, 2), Fees(1, 8, 1, 2, 1, 4, 1, 2),
     Fees(1, 4, 0, 2, 1, 4, 1, 2), Fees(1, 4, 2, 2, 1, 4, 1, 2), Fees(1, 4, 1, 4, 1, 4, 1, 2),
     Fees(1, 4, 1, 2, 0, 4, 1, 2), Fees(1, 4, 1, 2, 2, 4, 1, 2), Fees(1, 4, 1, 2, 1, 8, 1, 2),
     Fees(1, 4, 1, 2, 1, 4, 0, 2), Fees(1, 4, 1, 2, 1, 4, 2, 2), Fees(1, 4, 1, 2, 1, 4, 1, 4)}

InitializeInit ==
    /\ swap_info = Uninitialized
    /\ token_a \in 0..MaxAmount
    /\ token_b \in 0..MaxAmount
    /\ pool_mint = 0
    /\ steps = 0
    /\ last = NoInstruction
    /\ inp = NoInput
    /\ out = Idle

InitializePool ==
    \E swap_curve \in SwapCurves, fees \in InitializeSchedules,
       fee_account_owner \in FeeAccountOwners,
       swap_constraints \in InitializeConstraints :
        LET returned == process_initialize(token_a, token_b, fee_account_owner, fees,
                            swap_curve, swap_constraints)
        IN  /\ Commit("initialize",
                   [fees |-> fees, swap_curve |-> swap_curve,
                    fee_account_owner |-> fee_account_owner,
                    swap_constraints |-> swap_constraints], returned)
            /\ swap_info' = IF returned.result = "Ok"
                            THEN [is_initialized |-> TRUE, fees |-> fees,
                                  swap_curve |-> swap_curve]
                            ELSE swap_info

InitializeNext == InitializePool

InitializeSpec == InitializeInit /\ [][InitializeNext]_vars

---------------------------------------------------------------------------
(* SwapFeeSpec: one swap on an initialized pool whose supply is the initial *)
(* one or what withdrawals have left of it, under schedules with and        *)
(* without a host fee.                                                      *)

HostFreeFees == Fees(1, 4, 1, 2, 0, 0, 0, 0)
SwapFeeSchedules == {QuarterFees, ProductionFees, HostFreeFees}
SwapFeeSupplies == {1, MaxAmount + 1, INITIAL_SWAP_POOL_AMOUNT}

SwapFeeInit ==
    /\ swap_info \in [is_initialized : {TRUE}, fees : SwapFeeSchedules,
                       swap_curve : {DefaultSwapCurve}]
    /\ token_a \in 1..MaxReserve
    /\ token_b \in 1..MaxReserve
    /\ pool_mint \in SwapFeeSupplies
    /\ steps = 0
    /\ last = NoInstruction
    /\ inp = NoInput
    /\ out = Idle

SwapFeeNext == SwapTokens

SwapFeeSpec == SwapFeeInit /\ [][SwapFeeNext]_vars

---------------------------------------------------------------------------
(* Claims about the curve functions (CurveSpec).                           *)

IsConstantProduct == inp.swap_curve.calculator.calculator = "ConstantProductCurve"
IsConstantPrice == inp.swap_curve.calculator.calculator = "ConstantPriceCurve"
SwapSucceeded == out.op = "swap" /\ IsSome(out.res)

C2_Scenario ==
    /\ out.op = "swap"
    /\ IsConstantProduct
    /\ inp.fees = ThirtyBasisPoints
    /\ inp.source_amount = 100
    /\ inp.swap_source_amount = 1000
    /\ inp.swap_destination_amount = 1000
    /\ inp.trade_direction = "AtoB"

(* C2, as claimed: on a constant-product pool with reserves (1000, 1000),   *)
(* trade fee 30/10000 and owner fee 0/10000, a swap of 100 from A to B      *)
(* succeeds with destination_amount_swapped = 90 and source_amount_swapped  *)
(* = 100.                                                                   *)
C2_Original ==
    C2_Scenario =>
        /\ IsSome(out.res)
        /\ out.res.val.destination_amount_swapped = 90
        /\ out.res.val.source_amount_swapped = 100

(* C2, amended: in that scenario the swap succeeds with                     *)
(* destination_amount_swapped = 90 and source_amount_swapped = 99: the      *)
(* trade fee is floor(100 * 30 / 10000) = 0 and checked_ceil_div hands back *)
(* 1099 as the new source reserve, the least that still leaves 910 on the   *)
(* destination side.                                                        *)
C2_ScenarioSwapsNinetyNineForNinety ==
    C2_Scenario =>
        /\ IsSome(out.res)
        /\ out.res.val.destination_amount_swapped = 90
        /\ out.res.val.source_amount_swapped = 99
        /\ out.res.val.trade_fee = 0
        /\ out.res.val.owner_fee = 0
        /\ out.res.val.new_swap_source_amount = 1099
        /\ out.res.val.new_swap_destination_amount = 910

C2_Witness == C2_Scenario /\ IsSome(out.res)

(* C3, as claimed: for every successful SwapCurve::swap the source amount   *)
(* consumed (fees included) is at least the requested amount after fees.    *)
C3_Original ==
    SwapSucceeded =>
        out.res.val.source_amount_swapped >=
            inp.source_amount - (out.res.val.trade_fee + out.res.val.owner_fee)

(* C3, amended: for every successful SwapCurve::swap the part of the source *)
(* amount consumed that is not fee is at least 1 and at most the requested  *)
(* amount after fees; the curve may hand back a rounding remainder, so the  *)
(* amount consumed can be below the requested amount after fees.            *)
C3_ConsumedBetweenFeesAndRequest ==
    SwapSucceeded =>
        LET total_fees == out.res.val.trade_fee + out.res.val.owner_fee
            consumed_by_curve == out.res.val.source_amount_swapped - total_fees
        IN  /\ consumed_by_curve >= 1
            /\ consumed_by_curve <= inp.source_amount - total_fees

C3_Witness ==
    /\ SwapSucceeded
    /\ out.res.val.trade_fee + out.res.val.owner_fee > 0
    /\ out.res.val.source_amount_swapped < inp.source_amount

(* C6: SwapCurve::swap with source_amount = 0 returns no result, whatever   *)
(* the curve, the reserves, the direction and the fee schedule.             *)
C6_ZeroAmountSwapRejected ==
    (out.op = "swap" /\ inp.source_amount = 0) => ~IsSome(out.res)

C6_Witness ==
    /\ out.op = "swap"
    /\ inp.source_amount = 0
    /\ inp.swap_source_amount > 0
    /\ inp.swap_destination_amount > 0
    /\ IsConstantProduct
    /\ ~IsSome(out.res)

(* C7, as claimed, for the constant-price curve (the curve whose            *)
(* deposit_single_token_type is among the sources):                         *)
(* deposit_single_token_type with source_amount = 0 returns no result.      *)
C7_Original ==
    (out.op = "deposit_single_token_type" /\ IsConstantPrice /\ inp.source_amount = 0)
        => ~IsSome(out.res)

(* C10: a swap that returns a result delivers a destination amount above 0, *)
(* for swap_without_fees of both curves and for SwapCurve::swap.            *)
C10_DestinationAmountPositive ==
    (out.op \in {"swap", "swap_without_fees"} /\ IsSome(out.res))
        => out.res.val.destination_amount_swapped > 0

(* a constant-price swap from A to B of less than the price of one B: the   *)
(* computed destination amount is 0 and there is no result                  *)
C10_Witness ==
    /\ out.op = "swap_without_fees"
    /\ IsConstantPrice
    /\ inp.trade_direction = "AtoB"
    /\ inp.source_amount > 0
    /\ inp.source_amount < inp.swap_curve.calculator.token_b_price
    /\ ~IsSome(out.res)

---------------------------------------------------------------------------
(* Claims about the processor (Spec).                                      *)

SwapCommitted == last.op = "swap" /\ last.result = "Ok"
FirstDeposit ==
    /\ last.op \in {"deposit_all_token_types", "deposit_single_token_type_exact_amount_in"}
    /\ last.pool_mint = 0
FirstDepositAll ==
    /\ last.op = "deposit_all_token_types"
    /\ last.pool_mint = 0
    /\ swap_info.is_initialized

(* C1: over every committed swap of a constant-product pool, in either     *)
(* direction, the product of the two reserves after the swap is at least   *)
(* the product before it, so it never decreases along a sequence of swaps. *)
C1_ReserveProductNeverDecreases ==
    [][(last'.op = "swap" /\ last'.result = "Ok")
           => token_a' * token_b' >= token_a * token_b]_vars

(* a committed swap on positive reserves that made the product grow *)
C1_Witness ==
    /\ SwapCommitted
    /\ last.args.amount_in > 0
    /\ last.token_a > 0
    /\ last.token_b > 0
    /\ token_a * token_b > last.token_a * last.token_b

(* C4, as claimed: an instruction that returns an error has issued no       *)
(* transfer, mint or burn.                                                  *)
C4_Original == last.result # "Ok" => last.issued = <<>>

(* C5, as claimed: the fees and the curve stored in an initialized swap     *)
(* account are never changed by any instruction.                            *)
C5_Original ==
    [][swap_info.is_initialized
           => /\ swap_info'.fees = swap_info.fees
              /\ swap_info'.swap_curve = swap_info.swap_curve]_vars

(* C8: a committed deposit, of both tokens or of one, into a pool whose     *)
(* mint has supply 0 mints exactly INITIAL_SWAP_POOL_AMOUNT pool tokens,    *)
(* whatever amount the caller named.                                        *)
C8_FirstDepositMintsInitialSupply ==
    (FirstDeposit /\ last.result = "Ok")
        => /\ Debit(last.issued, "pool_mint") = INITIAL_SWAP_POOL_AMOUNT
           /\ pool_mint = INITIAL_SWAP_POOL_AMOUNT

(* a committed first deposit of both tokens that asked for 1 pool token *)
C8_Witness ==
    /\ FirstDeposit
    /\ last.result = "Ok"
    /\ last.op = "deposit_all_token_types"
    /\ last.args.pool_token_amount = 1
    /\ pool_mint = INITIAL_SWAP_POOL_AMOUNT

---------------------------------------------------------------------------
(* Claims on the conversion of pool tokens to trading tokens (CurveSpec).  *)

PoolTokensConverted(round_direction) ==
    /\ out.op = "pool_tokens_to_trading_tokens"
    /\ out.round_direction = round_direction

(* floor(x / y) and ceiling(x / y) for y > 0, on products the model's       *)
(* integers hold                                                            *)
FloorQ(x, y) == x \div y
CeilQ(x, y) == (x + y - 1) \div y

(* (a + b * price) / 2, the value the constant-price curve converts *)
HalfValue == (inp_token_a + inp_token_b * inp.swap_curve.calculator.token_b_price) \div 2

(* C11, as stated: with Floor rounding every curve returns                  *)
(* floor(pool_tokens * reserve / pool_supply) on each side, and no result   *)
(* when pool_supply is 0.                                                   *)
C11_Original ==
    PoolTokensConverted("Floor") =>
        IF inp.pool_supply = 0 THEN out.res = None
        ELSE out.res = Some([token_a_amount |->
                                 FloorQ(inp.source_amount * inp_token_a, inp.pool_supply),
                             token_b_amount |->
                                 FloorQ(inp.source_amount * inp_token_b, inp.pool_supply)])

(* C11, amended: with Floor rounding the constant-product curve returns     *)
(* floor(pool_tokens * reserve / pool_supply) on each side and no result    *)
(* when pool_supply is 0.  The constant-price curve converts the halved     *)
(* total value V = floor((reserve_a + reserve_b * price) / 2) instead:      *)
(* token A is floor(pool_tokens * V / pool_supply), token B is              *)
(* floor(floor(pool_tokens * V / price) / pool_supply), and there is no     *)
(* result when pool_supply or price is 0.                                   *)
C11_FloorConversionPerCurve ==
    PoolTokensConverted("Floor") =>
        IF IsConstantProduct
        THEN IF inp.pool_supply = 0 THEN out.res = None
             ELSE out.res =
                      Some([token_a_amount |->
                                FloorQ(inp.source_amount * inp_token_a, inp.pool_supply),
                            token_b_amount |->
                                FloorQ(inp.source_amount * inp_token_b, inp.pool_supply)])
        ELSE IF inp.pool_supply = 0 \/ inp.swap_curve.calculator.token_b_price = 0
             THEN out.res = None
             ELSE out.res =
                      Some([token_a_amount |->
                                FloorQ(inp.source_amount * HalfValue, inp.pool_supply),
                            token_b_amount |->
                                FloorQ(FloorQ(inp.source_amount * HalfValue,
                                              inp.swap_curve.calculator.token_b_price),
                                       inp.pool_supply)])

(* a constant-price conversion whose token B amount is not the ratio of the *)
(* token B reserve                                                          *)
C11_Witness ==
    /\ PoolTokensConverted("Floor")
    /\ IsConstantPrice
    /\ IsSome(out.res)
    /\ inp.pool_supply = 3
    /\ out.res.val.token_b_amount > 0
    /\ out.res.val.token_b_amount
           # FloorQ(inp.source_amount * inp_token_b, inp.pool_supply)

(* the remainders of the two divisions of a constant-product conversion *)
RemainderA == (inp.source_amount * inp_token_a) % inp.pool_supply
RemainderB == (inp.source_amount * inp_token_b) % inp.pool_supply

(* what Floor rounding returns on the arguments of the call *)
FloorResult ==
    calculator_pool_tokens_to_trading_tokens(inp.swap_curve.calculator,
        inp.source_amount, inp.pool_supply, inp_token_a, inp_token_b, "Floor")

(* C12, as stated: for every curve a Ceiling amount is the Floor amount     *)
(* plus one or the Floor amount, and it is 0 whenever the Floor amount is   *)
(* 0.                                                                       *)
C12_Original ==
    (PoolTokensConverted("Ceiling") /\ IsSome(FloorResult)) =>
        /\ IsSome(out.res)
        /\ out.res.val.token_a_amount \in
               {FloorResult.val.token_a_amount, FloorResult.val.token_a_amount + 1}
        /\ out.res.val.token_b_amount \in
               {FloorResult.val.token_b_amount, FloorResult.val.token_b_amount + 1}
        /\ FloorResult.val.token_a_amount = 0 => out.res.val.token_a_amount = 0
        /\ FloorResult.val.token_b_amount = 0 => out.res.val.token_b_amount = 0

(* C12, amended: for the constant-product curve a Ceiling amount is the     *)
(* Floor amount plus one exactly when the remainder of the division is      *)
(* non-zero and the Floor amount is non-zero, and the Floor amount          *)
(* otherwise.  The constant-price curve has no dust rule: Ceiling returns   *)
(* no result when floor(pool_tokens * V / pool_supply) or                   *)
(* floor(pool_tokens * V / price) is 0 or when ceiling(pool_tokens * V /    *)
(* price) is below pool_supply, and otherwise the plain ceilings            *)
(* ceiling(pool_tokens * V / pool_supply) and                               *)
(* ceiling(ceiling(pool_tokens * V / price) / pool_supply), so that its     *)
(* token B amount can be 1 where the Floor amount is 0.                     *)
C12_CeilingPerCurve ==
    (PoolTokensConverted("Ceiling") /\ IsSome(FloorResult)) =>
        IF IsConstantProduct
        THEN /\ IsSome(out.res)
             /\ out.res.val.token_a_amount =
                    IF RemainderA # 0 /\ FloorResult.val.token_a_amount # 0
                    THEN FloorResult.val.token_a_amount + 1
                    ELSE FloorResult.val.token_a_amount
             /\ out.res.val.token_b_amount =
                    IF RemainderB # 0 /\ FloorResult.val.token_b_amount # 0
                    THEN FloorResult.val.token_b_amount + 1
                    ELSE FloorResult.val.token_b_amount
        ELSE LET value == inp.source_amount * HalfValue
                 price == inp.swap_curve.calculator.token_b_price
             IN  IF \/ FloorQ(value, inp.pool_supply) = 0
                    \/ FloorQ(value, price) = 0
                    \/ CeilQ(value, price) < inp.pool_supply
                 THEN out.res = None
                 ELSE out.res =
                          Some([token_a_amount |-> CeilQ(value, inp.pool_supply),
                                token_b_amount |->
                                    CeilQ(CeilQ(value, price), inp.pool_supply)])

(* a constant-product conversion that keeps a dust amount at 0 on one side  *)
(* and rounds the other side up                                             *)
C12_Witness ==
    /\ PoolTokensConverted("Ceiling")
    /\ IsConstantProduct
    /\ IsSome(out.res)
    /\ RemainderA # 0
    /\ RemainderB # 0
    /\ out.res.val.token_a_amount = 0
    /\ out.res.val.token_b_amount = FloorResult.val.token_b_amount + 1

---------------------------------------------------------------------------
(* Claims on the ceiling division (CurveSpec).                             *)

CeilingDivided ==
    /\ out.op = "checked_ceil_div"
    /\ out.dividend > 0
    /\ out.divisor > 0
    /\ IsSome(out.res)

(* C14: for a > 0 and b > 0 on which the ceiling division returns a         *)
(* result, its quotient is floor(a / b) when b divides a and                *)
(* floor(a / b) + 1 when it does not; a committed constant-product swap     *)
(* leaves that quotient of the invariant by the new source reserve as the   *)
(* destination reserve.                                                     *)
C14_CeilingDivideRoundsUpByAtMostOne ==
    /\ CeilingDivided =>
           /\ out.res.val[1] >= out.dividend \div out.divisor
           /\ out.res.val[1] - (out.dividend \div out.divisor) \in {0, 1}
           /\ (out.res.val[1] - (out.dividend \div out.divisor) = 1)
                  <=> (out.dividend % out.divisor # 0)
    /\ (out.op = "swap_without_fees" /\ IsConstantProduct /\ IsSome(out.res)) =>
           LET invariant == inp.swap_source_amount * inp.swap_destination_amount
               new_swap_source_amount == inp.swap_source_amount + inp.source_amount
               floor == invariant \div new_swap_source_amount
           IN  inp.swap_destination_amount - out.res.val.destination_amount_swapped
                   = IF invariant % new_swap_source_amount # 0 THEN floor + 1 ELSE floor

(* a division that leaves a remainder and rounds up *)
C14_Witness ==
    /\ CeilingDivided
    /\ out.dividend % out.divisor # 0
    /\ out.res.val[1] = (out.dividend \div out.divisor) + 1
    /\ out.res.val[1] > 1

---------------------------------------------------------------------------
(* Claims on the one-sided deposit against a swap and two deposits         *)
(* (CurveSpec).                                                            *)

(* check_deposit_token_conversion ran to its assertion on the constant-     *)
(* price curve, on amounts the model's integers hold                        *)
ConversionCompared ==
    /\ out.op = "check_deposit_token_conversion"
    /\ IsConstantPrice
    /\ out.res.completed
    /\ out.res.pool_tokens_from_one_side < ModelRange
    /\ out.res.pool_tokens_total_separate < ModelRange

(* the deposit and the pool's reserves, in token A *)
DepositValue ==
    IF inp.trade_direction = "AtoB" THEN inp.source_amount
    ELSE inp.source_amount * inp.swap_curve.calculator.token_b_price
TotalValue == inp_token_a + inp_token_b * inp.swap_curve.calculator.token_b_price

---------------------------------------------------------------------------
(* Claims on a deposit followed by a withdrawal (RoundTripSpec).           *)

(* the withdrawal of the pool tokens that the deposit in out minted was     *)
(* committed                                                                *)
RoundTripDone ==
    /\ steps = 2
    /\ last.op = "withdraw_all_token_types"
    /\ last.result = "Ok"

NoWithdrawFee == owner_withdraw_fee(swap_info.fees, INITIAL_SWAP_POOL_AMOUNT) = Some(0)

(* C13: on a pool with pool tokens outstanding and no withdrawal fee, a     *)
(* committed deposit of both tokens for P pool tokens followed at once by a *)
(* committed withdrawal of P pool tokens hands back, on each side, no more  *)
(* than the deposit took, so neither reserve ends below where it started.   *)
C13_DepositThenWithdrawNeverProfits ==
    (RoundTripDone /\ NoWithdrawFee) =>
        /\ Credit(last.issued, "user_token_a") <= Debit(out.issued, "user_token_a")
        /\ Credit(last.issued, "user_token_b") <= Debit(out.issued, "user_token_b")
        /\ token_a >= out.token_a
        /\ token_b >= out.token_b

(* a round trip whose deposit was rounded up on token A and whose           *)
(* withdrawal hands token A back                                            *)
C13_Witness ==
    /\ RoundTripDone
    /\ NoWithdrawFee
    /\ out.pool_mint > 0
    /\ Credit(last.issued, "user_token_a") > 0
    /\ token_a > out.token_a

---------------------------------------------------------------------------
(* Claims on the curve descriptor (PackSpec).                              *)

(* the tag the source reserves for the constant-price curve *)
ConstantPriceTag == 1

(* the bytes of a buffer at the indexes from..to are 0 *)
ZeroBytes(bytes, from, to) == \A i \in from..to : bytes[i] = 0

C17_Original ==
    out.op = "pack_into_slice" =>
        IF inp.swap_curve.calculator.calculator = "ConstantProductCurve"
        THEN ZeroBytes(out.output, 2, 33)
        ELSE ZeroBytes(out.output, 10, 33)

(* C18, as stated: a descriptor of the constant-price tag, a little-endian  *)
(* rate and 24 zero bytes unpacks to a SwapCurve of the constant-price      *)
(* curve with that rate, and unpacking fails only on a tag that names no    *)
(* variant.                                                                 *)
C18_Original ==
    out.op = "unpack_from_slice" =>
        /\ (out.input[1] = ConstantPriceTag /\ ZeroBytes(out.input, 10, 33)) =>
               /\ out.res.ok
               /\ out.res.val.calculator
                      = ConstantPriceCurve_unpack_from_slice(
                            SubSeq(out.input, 2, 9)).val
        /\ ~out.res.ok => out.input[1] \notin {0, ConstantPriceTag}

(***************************************************************************)
(* Claims on the composition of a swap (CurveSpec)                         *)
(***************************************************************************)
FeeOn(amount, numerator, denominator) ==
    IF denominator = 0 THEN 0 ELSE (amount * numerator) \div denominator

TradeFeeOnSource ==
    FeeOn(inp.source_amount, inp.fees.trade_fee_numerator, inp.fees.trade_fee_denominator)

OwnerFeeOnSource ==
    FeeOn(inp.source_amount, inp.fees.owner_trade_fee_numerator,
          inp.fees.owner_trade_fee_denominator)

CurveOnAmountLessFees ==
    calculator_swap_without_fees(inp.swap_curve.calculator,
        inp.source_amount - (TradeFeeOnSource + OwnerFeeOnSource),
        inp.swap_source_amount, inp.swap_destination_amount, inp.trade_direction)

(* C20: SwapCurve::swap takes trade_fee and owner_fee on the full          *)
(* source_amount and hands source_amount - (trade_fee + owner_fee) to the   *)
(* curve; it returns no result when the fees exceed source_amount, when the *)
(* curve returns none or when the curve takes more than the destination     *)
(* reserve, and otherwise returns source_amount_swapped = the curve's       *)
(* source consumed + trade_fee + owner_fee, new_swap_source_amount =        *)
(* swap_source_amount + source_amount_swapped, new_swap_destination_amount  *)
(* = swap_destination_amount - destination_amount_swapped, and the two fees *)
(* as computed.                                                             *)
C20_SwapPipelineComposition ==
    out.op = "swap" =>
        LET total_fees == TradeFeeOnSource + OwnerFeeOnSource
            c == CurveOnAmountLessFees
            r == out.res.val
        IN  /\ total_fees > inp.source_amount => ~IsSome(out.res)
            /\ IsSome(out.res) =>
                    /\ total_fees <= inp.source_amount
                    /\ IsSome(c)
                    /\ r.trade_fee = TradeFeeOnSource
                    /\ r.owner_fee = OwnerFeeOnSource
                    /\ r.destination_amount_swapped = c.val.destination_amount_swapped
                    /\ r.source_amount_swapped = c.val.source_amount_swapped + total_fees
                    /\ r.new_swap_source_amount =
                           inp.swap_source_amount + r.source_amount_swapped
                    /\ r.new_swap_destination_amount =
                           inp.swap_destination_amount - r.destination_amount_swapped
            /\ ( /\ total_fees <= inp.source_amount
                 /\ IsSome(c)
                 /\ c.val.destination_amount_swapped <= inp.swap_destination_amount )
                => IsSome(out.res)

C20_Witness ==
    /\ SwapSucceeded
    /\ out.res.val.trade_fee > 0
    /\ out.res.val.owner_fee > 0
    /\ out.res.val.source_amount_swapped
           > out.res.val.trade_fee + out.res.val.owner_fee
    /\ out.res.val.destination_amount_swapped > 0

(***************************************************************************)
(* Claims on the constant-price swap (CurveSpec)                           *)
(***************************************************************************)
ConstantPriceSwapped == out.op = "swap_without_fees" /\ IsConstantPrice

(* C21: with rate r = token_b_price, ConstantPriceCurve::swap_without_fees  *)
(* from A to B delivers floor(source_amount / r) of B and consumes          *)
(* delivered * r of A, which is source_amount less the remainder; from B to *)
(* A it consumes source_amount and delivers source_amount * r; there is no  *)
(* result when r is 0 or when either leg is 0.                              *)
C21_ConstantPriceSwap ==
    ConstantPriceSwapped =>
        LET r == inp.swap_curve.calculator.token_b_price
            n == inp.source_amount
            delivered == IF inp.trade_direction = "AtoB" THEN n \div r ELSE n * r
            consumed == IF inp.trade_direction = "AtoB" THEN delivered * r ELSE n
        IN  IF r = 0 \/ delivered = 0 \/ consumed = 0
            THEN ~IsSome(out.res)
            ELSE /\ IsSome(out.res)
                 /\ out.res.val.destination_amount_swapped = delivered
                 /\ out.res.val.source_amount_swapped = consumed
                 /\ consumed <= n
                 /\ inp.trade_direction = "AtoB" => consumed = n - (n % r)

(* a swap from A to B whose amount is not a multiple of the rate *)
C21_Witness ==
    /\ ConstantPriceSwapped
    /\ inp.trade_direction = "AtoB"
    /\ IsSome(out.res)
    /\ out.res.val.source_amount_swapped < inp.source_amount
    /\ out.res.val.destination_amount_swapped > 1

(***************************************************************************)
(* Claims on the single-token withdrawal with fees (CurveSpec)             *)
(***************************************************************************)
WithdrawalConverted == out.op = "withdraw_single_token_type_exact_out"

HalfSourceFee ==
    FeeOn(Max(1, inp.source_amount \div 2), inp.fees.trade_fee_numerator,
          inp.fees.trade_fee_denominator)

(* C22: for source_amount >= 1, SwapCurve::withdraw_single_token_type_-      *)
(* exact_out returns what the curve's withdraw_single_token_type_exact_out   *)
(* returns for source_amount - trading_fee(max(1, source_amount / 2)) with   *)
(* the same reserves, pool supply and direction, and no result when the fee  *)
(* is above source_amount; for source_amount = 0 it returns 0 pool tokens.   *)
C22_WithdrawalFeeOnHalf ==
    WithdrawalConverted =>
        IF inp.source_amount = 0 THEN out.res = Some(0)
        ELSE IF HalfSourceFee > inp.source_amount THEN ~IsSome(out.res)
        ELSE out.res = calculator_withdraw_single_token_type_exact_out(
                           inp.swap_curve.calculator, inp.source_amount - HalfSourceFee,
                           inp_token_a, inp_token_b, inp.pool_supply,
                           inp.trade_direction, out.root_pick)

(* a withdrawal that pays a fee and costs pool tokens *)
C22_Witness ==
    /\ WithdrawalConverted
    /\ HalfSourceFee > 0
    /\ HalfSourceFee < inp.source_amount
    /\ IsSome(out.res)
    /\ out.res.val > 0

(***************************************************************************)
(* Claims on the creation of a pool (InitializeSpec)                       *)
(***************************************************************************)
InitializeReturned == last.op = "initialize"

SupplyRefused ==
    IF last.args.swap_curve.calculator.calculator = "ConstantProductCurve"
    THEN last.token_a = 0 \/ last.token_b = 0
    ELSE last.token_a = 0

PoolNotCreated ==
    /\ last.issued = <<>>
    /\ pool_mint = 0
    /\ swap_info = Uninitialized

(* C23: validate_supply fails with EmptySupply when reserve_a or reserve_b   *)
(* is 0 for the constant-product curve and exactly when reserve_a is 0 for   *)
(* the constant-price curve; process_initialize then returns EmptySupply,    *)
(* mints nothing and writes no pool state.                                   *)
C23_EmptySupplyCreatesNoPool ==
    InitializeReturned =>
        /\ SupplyRefused <=>
               calculator_validate_supply(last.args.swap_curve.calculator,
                                          last.token_a, last.token_b) = "EmptySupply"
        /\ SupplyRefused <=> last.result = "EmptySupply"
        /\ SupplyRefused => PoolNotCreated

(* a constant-price pool is refused for an empty token A account although   *)
(* token B is funded                                                        *)
C23_Witness ==
    /\ InitializeReturned
    /\ last.args.swap_curve.calculator.calculator = "ConstantPriceCurve"
    /\ last.token_a = 0
    /\ last.token_b > 0
    /\ last.result = "EmptySupply"
    /\ PoolNotCreated

(***************************************************************************)
(* Claims on the slippage bounds (Spec)                                    *)
(***************************************************************************)
Succeeded(op) == last.op = op /\ last.result = "Ok"

(* what the instruction in `last` computes from the accounts it found,      *)
(* before it compares anything with the caller's bounds                     *)
SwapQuoted ==
    SwapCurve_swap(swap_info.swap_curve, last.args.amount_in,
        IF last.args.trade_direction = "AtoB" THEN last.token_a ELSE last.token_b,
        IF last.args.trade_direction = "AtoB" THEN last.token_b ELSE last.token_a,
        last.args.trade_direction, swap_info.fees)

DepositAllQuoted ==
    LET amounts == deposit_pool_token_amounts(last.args.pool_token_amount, last.pool_mint)
    IN  calculator_pool_tokens_to_trading_tokens(swap_info.swap_curve.calculator,
            amounts[1], amounts[2], last.token_a, last.token_b, "Ceiling")

WithdrawAllFee ==
    IF last.args.from_fee_account THEN Some(0)
    ELSE owner_withdraw_fee(swap_info.fees, last.args.pool_token_amount)

WithdrawAllQuoted ==
    IF ~IsSome(WithdrawAllFee) \/ last.args.pool_token_amount < WithdrawAllFee.val
    THEN None
    ELSE calculator_pool_tokens_to_trading_tokens(swap_info.swap_curve.calculator,
             last.args.pool_token_amount - WithdrawAllFee.val, last.pool_mint,
             last.token_a, last.token_b, "Floor")

WithdrawAllTokenA == Min(last.token_a, WithdrawAllQuoted.val.token_a_amount)
WithdrawAllTokenB == Min(last.token_b, WithdrawAllQuoted.val.token_b_amount)

DepositSingleQuoted ==
    IF last.pool_mint > 0
    THEN SwapCurve_deposit_single_token_type(swap_info.swap_curve,
             last.args.source_token_amount, last.token_a, last.token_b, last.pool_mint,
             last.args.trade_direction, swap_info.fees)
    ELSE Some(new_pool_supply)

WithdrawSingleBurn(root_pick) ==
    SwapCurve_withdraw_single_token_type_exact_out(swap_info.swap_curve,
        last.args.destination_token_amount, last.token_a, last.token_b, last.pool_mint,
        last.args.trade_direction, swap_info.fees, root_pick)

WithdrawSingleFee(root_pick) ==
    IF last.args.from_fee_account THEN Some(0)
    ELSE owner_withdraw_fee(swap_info.fees, WithdrawSingleBurn(root_pick).val)

(* the single-token withdrawal costs more than the caller's maximum,        *)
(* whichever way the square root is rounded                                 *)
WithdrawSingleTooDear ==
    \A root_pick \in RootPicks :
        /\ IsSome(WithdrawSingleBurn(root_pick))
        /\ IsSome(WithdrawSingleFee(root_pick))
        /\ SatAdd(WithdrawSingleBurn(root_pick).val, WithdrawSingleFee(root_pick).val)
               > last.args.maximum_pool_token_amount

(* a committed instruction kept within the caller's bounds, measured on the *)
(* token-program instructions it issued                                     *)
BoundsKept ==
    /\ Succeeded("swap")
           => Credit(last.issued, user_token(opposite(last.args.trade_direction)))
                  >= last.args.minimum_amount_out
    /\ Succeeded("deposit_all_token_types")
           => /\ Credit(last.issued, "swap_token_a") <= last.args.maximum_token_a_amount
              /\ Credit(last.issued, "swap_token_b") <= last.args.maximum_token_b_amount
    /\ Succeeded("withdraw_all_token_types")
           => /\ Credit(last.issued, "user_token_a") >= last.args.minimum_token_a_amount
              /\ Credit(last.issued, "user_token_b") >= last.args.minimum_token_b_amount
    /\ Succeeded("withdraw_single_token_type_exact_amount_out")
           => Debit(last.issued, pool_token_source(last.args.from_fee_account))
                  <= last.args.maximum_pool_token_amount
    /\ Succeeded("deposit_single_token_type_exact_amount_in")
           => Credit(last.issued, "user_pool_token")
                  >= last.args.minimum_pool_token_amount

(* the instructions whose only bound, or whose first bound, is missed *)
FirstBoundMissed ==
    /\ swap_info.is_initialized
    /\ \/ /\ last.op = "swap"
          /\ IsSome(SwapQuoted)
          /\ SwapQuoted.val.destination_amount_swapped < last.args.minimum_amount_out
       \/ /\ last.op = "deposit_all_token_types"
          /\ IsSome(DepositAllQuoted)
          /\ DepositAllQuoted.val.token_a_amount > last.args.maximum_token_a_amount
       \/ /\ last.op = "withdraw_all_token_types"
          /\ IsSome(WithdrawAllQuoted)
          /\ WithdrawAllTokenA < last.args.minimum_token_a_amount
       \/ /\ last.op = "withdraw_single_token_type_exact_amount_out"
          /\ WithdrawSingleTooDear
       \/ /\ last.op = "deposit_single_token_type_exact_amount_in"
          /\ IsSome(DepositSingleQuoted)
          /\ DepositSingleQuoted.val < last.args.minimum_pool_token_amount

(* the token A bound is kept and the token B bound is missed *)
SecondBoundMissed ==
    /\ swap_info.is_initialized
    /\ \/ /\ last.op = "deposit_all_token_types"
          /\ IsSome(DepositAllQuoted)
          /\ DepositAllQuoted.val.token_a_amount <= last.args.maximum_token_a_amount
          /\ DepositAllQuoted.val.token_b_amount > last.args.maximum_token_b_amount
       \/ /\ last.op = "withdraw_all_token_types"
          /\ IsSome(WithdrawAllQuoted)
          /\ WithdrawAllTokenA >= last.args.minimum_token_a_amount
          /\ WithdrawAllTokenB < last.args.minimum_token_b_amount

(* the check for a zero token A amount, which stands between the two bounds *)
TokenAZero ==
    \/ /\ last.op = "deposit_all_token_types"
       /\ DepositAllQuoted.val.token_a_amount = 0
    \/ /\ last.op = "withdraw_all_token_types"
       /\ WithdrawAllTokenA = 0
       /\ last.token_a # 0

OwnerFeePoolTokens(root_pick) ==
    LET q == SwapQuoted.val
        a_to_b == last.args.trade_direction = "AtoB"
    IN  SwapCurve_withdraw_single_token_type_exact_out(swap_info.swap_curve, q.owner_fee,
            IF a_to_b THEN q.new_swap_source_amount ELSE q.new_swap_destination_amount,
            IF a_to_b THEN q.new_swap_destination_amount ELSE q.new_swap_source_amount,
            last.pool_mint, last.args.trade_direction, swap_info.fees, root_pick)

HostShare(pool_token_amount) ==
    IF last.args.host = "none" THEN 0
    ELSE IF swap_info.fees.host_fee_denominator = 0 THEN 0
    ELSE MulQR(pool_token_amount, swap_info.fees.host_fee_numerator,
               swap_info.fees.host_fee_denominator)[1]

MintsTo(account) ==
    {i \in 1..Len(last.issued) :
        last.issued[i].ix = "mint_to" /\ last.issued[i].destination = account}

(* C25: in a committed swap the pool tokens minted to the host account plus *)
(* those minted to the pool fee account equal the owner fee converted with  *)
(* withdraw_single_token_type_exact_out; the host receives host_fee of that *)
(* amount, in a mint that is issued only when a host account is passed and  *)
(* the share is above 0; when the converted amount is 0 nothing is minted.  *)
C25_OwnerFeeMints ==
    Succeeded("swap") =>
        \E root_pick \in RootPicks :
            LET converted == OwnerFeePoolTokens(root_pick)
            IN  /\ IsSome(converted)
                /\ Credit(last.issued, "host_fee_account")
                       + Credit(last.issued, "pool_fee_account") = converted.val
                /\ Credit(last.issued, "host_fee_account") = HostShare(converted.val)
                /\ MintsTo("host_fee_account") # {} <=> HostShare(converted.val) > 0
                /\ converted.val = 0 => Debit(last.issued, "pool_mint") = 0
                /\ Debit(last.issued, "pool_mint") = converted.val

(* a committed swap that mints to the host and to the pool fee account *)
C25_Witness ==
    /\ Succeeded("swap")
    /\ Credit(last.issued, "host_fee_account") > 0
    /\ Credit(last.issued, "pool_fee_account") > 0
    /\ pool_mint = last.pool_mint + Credit(last.issued, "host_fee_account")
                     + Credit(last.issued, "pool_fee_account")

(***************************************************************************)
(* Claims on the withdrawal fee (Spec)                                     *)
(***************************************************************************)
WithdrawAllCommitted == Succeeded("withdraw_all_token_types")

(* owner_withdraw_fee of the requested amount, by the stored fraction *)
RequestedWithdrawFee ==
    IF last.args.from_fee_account THEN 0
    ELSE IF swap_info.fees.owner_withdraw_fee_denominator = 0 THEN 0
    ELSE MulQR(last.args.pool_token_amount, swap_info.fees.owner_withdraw_fee_numerator,
               swap_info.fees.owner_withdraw_fee_denominator)[1]

(* the share of a reserve that the pool tokens left after the fee stand for *)
ShareAfterFee(reserve) ==
    Min(reserve, MulQR(last.args.pool_token_amount - RequestedWithdrawFee, reserve,
                       last.pool_mint)[1])

(* C26: in a committed withdrawal of both tokens the fee is 0 when the pool *)
(* tokens come from the pool fee account and owner_withdraw_fee of the      *)
(* requested pool_token_amount otherwise; the pool tokens transferred to    *)
(* the fee account plus the pool tokens burned equal the requested amount;  *)
(* token A and token B are paid out on the amount left after the fee.       *)
C26_WithdrawFeeAccounting ==
    WithdrawAllCommitted =>
        /\ Credit(last.issued, "pool_fee_account") = RequestedWithdrawFee
        /\ Credit(last.issued, "pool_fee_account") + Credit(last.issued, "pool_mint")
               = last.args.pool_token_amount
        /\ Debit(last.issued, pool_token_source(last.args.from_fee_account))
               = last.args.pool_token_amount
        /\ Credit(last.issued, "user_token_a") = ShareAfterFee(last.token_a)
        /\ Credit(last.issued, "user_token_b") = ShareAfterFee(last.token_b)

(* a committed withdrawal that paid a fee and paid out less for it *)
C26_Witness ==
    /\ WithdrawAllCommitted
    /\ ~last.args.from_fee_account
    /\ Credit(last.issued, "pool_fee_account") > 0
    /\ Credit(last.issued, "user_token_a") > 0
    /\ Credit(last.issued, "user_token_a")
           < MulQR(last.args.pool_token_amount, last.token_a, last.pool_mint)[1]

(***************************************************************************)
(* Claims on the constraints (InitializeSpec)                              *)
(***************************************************************************)
FeesAccepted(floor, fees) ==
    /\ fees.trade_fee_numerator >= floor.trade_fee_numerator
    /\ fees.owner_trade_fee_numerator >= floor.owner_trade_fee_numerator
    /\ fees.owner_withdraw_fee_numerator >= floor.owner_withdraw_fee_numerator
    /\ fees.trade_fee_denominator = floor.trade_fee_denominator
    /\ fees.owner_trade_fee_denominator = floor.owner_trade_fee_denominator
    /\ fees.owner_withdraw_fee_denominator = floor.owner_withdraw_fee_denominator
    /\ fees.host_fee_numerator = floor.host_fee_numerator
    /\ fees.host_fee_denominator = floor.host_fee_denominator

CurveAccepted(constraints, swap_curve) ==
    swap_curve.curve_type \in constraints.valid_curve_types

ConstraintsPresent == InitializeReturned /\ IsSome(last.args.swap_constraints)

(* process_initialize got as far as the two checks of the constraints *)
ConstraintsConsulted ==
    /\ ConstraintsPresent
    /\ ~SupplyRefused
    /\ last.args.fee_account_owner = last.args.swap_constraints.val.owner_key

(* C27: validate_fees succeeds exactly when the trade, owner-trade and      *)
(* owner-withdraw numerators are at least the constraint's, the three       *)
(* denominators equal the constraint's, and the host numerator and          *)
(* denominator equal the constraint's; validate_curve succeeds exactly when  *)
(* the curve type is among valid_curve_types; with constraints present       *)
(* process_initialize creates a pool only if both succeed, and returns       *)
(* UnsupportedCurveType or InvalidFee, creating nothing, when it consults    *)
(* them and one fails; with constraints absent neither check is made.        *)
C27_ConstraintsGateCreation ==
    InitializeReturned =>
        LET fees == last.args.fees
            swap_curve == last.args.swap_curve
        IN  /\ \A c \in InitializeConstraints \ {None} :
                   /\ validate_fees(c.val, fees) = "Ok" <=> FeesAccepted(c.val.fees, fees)
                   /\ validate_fees(c.val, fees) \in {"Ok", "InvalidFee"}
                   /\ validate_curve(c.val, swap_curve) = "Ok"
                          <=> CurveAccepted(c.val, swap_curve)
                   /\ validate_curve(c.val, swap_curve) \in {"Ok", "UnsupportedCurveType"}
            /\ (ConstraintsPresent /\ last.result = "Ok")
                   => /\ FeesAccepted(last.args.swap_constraints.val.fees, fees)
                      /\ CurveAccepted(last.args.swap_constraints.val, swap_curve)
            /\ (ConstraintsConsulted
                    /\ ~CurveAccepted(last.args.swap_constraints.val, swap_curve))
                   => last.result = "UnsupportedCurveType" /\ PoolNotCreated
            /\ (ConstraintsConsulted
                    /\ CurveAccepted(last.args.swap_constraints.val, swap_curve)
                    /\ ~FeesAccepted(last.args.swap_constraints.val.fees, fees))
                   => last.result = "InvalidFee" /\ PoolNotCreated
            /\ (InitializeReturned /\ ~ConstraintsPresent)
                   => /\ last.result \notin {"UnsupportedCurveType", "InvalidOwner"}
                      /\ last.result = "InvalidFee" => ~fees_validate(fees)

(* a pool refused for a host numerator above the constraint's, every other  *)
(* field being at the constraint's value                                    *)
C27_Witness ==
    /\ ConstraintsConsulted
    /\ last.args.swap_constraints = Some(QuarterConstraints)
    /\ last.args.fees = Fees(1, 4, 1, 2, 1, 4, 2, 2)
    /\ last.result = "InvalidFee"
    /\ PoolNotCreated

(***************************************************************************)
(* Claims on the reserves under swaps (Spec)                               *)
(***************************************************************************)
(* C28: a committed swap of a constant-product pool whose two reserves are  *)
(* above 0 leaves both reserves above 0, in either direction, so the        *)
(* reserves stay above 0 along any sequence of swaps: the swap never        *)
(* delivers the whole destination reserve.                                  *)
C28_ReservesStayPositiveUnderSwaps ==
    [][(last'.op = "swap" /\ last'.result = "Ok" /\ token_a > 0 /\ token_b > 0)
           => /\ token_a' > 0
              /\ token_b' > 0
              /\ Debit(last'.issued, "swap_token_a") < token_a
              /\ Debit(last'.issued, "swap_token_b") < token_b]_vars

(* a committed swap that takes the destination reserve down to 1 *)
C28_Witness ==
    /\ SwapCommitted
    /\ last.token_a > 0
    /\ last.token_b > 0
    /\ (token_a = 1 /\ last.token_a > 1) \/ (token_b = 1 /\ last.token_b > 1)

(***************************************************************************)
(* Claims on what a swap charges and delivers (CurveSpec)                  *)
(***************************************************************************)
(* C29: for every SwapCurve::swap that returns a result, with either curve, *)
(* source_amount_swapped, fees included, is at most the source_amount that  *)
(* was passed, so the amount process_swap converts to u64 and transfers     *)
(* from the user is at most amount_in.                                      *)
C29_SwapChargesAtMostTheOffer ==
    SwapSucceeded =>
        /\ out.res.val.source_amount_swapped <= inp.source_amount
        /\ out.res.val.trade_fee + out.res.val.owner_fee
               <= out.res.val.source_amount_swapped
        /\ out.res.val.new_swap_source_amount
               <= inp.swap_source_amount + inp.source_amount

(* a swap with fees that charges the whole offer *)
C29_Witness ==
    /\ SwapSucceeded
    /\ out.res.val.trade_fee > 0
    /\ out.res.val.owner_fee > 0
    /\ out.res.val.source_amount_swapped = inp.source_amount

(* the curve quotes more of the destination token than the pool holds *)
QuoteAboveReserve ==
    /\ out.op = "swap"
    /\ TradeFeeOnSource + OwnerFeeOnSource <= inp.source_amount
    /\ IsSome(CurveOnAmountLessFees)
    /\ CurveOnAmountLessFees.val.destination_amount_swapped > inp.swap_destination_amount

(* C30: for every SwapCurve::swap that returns a result, with either curve, *)
(* destination_amount_swapped is at most swap_destination_amount and the    *)
(* new destination reserve is what is left of it; a request whose priced    *)
(* output is above the destination reserve returns no result.               *)
C30_SwapDeliversAtMostTheReserve ==
    /\ SwapSucceeded =>
           /\ out.res.val.destination_amount_swapped <= inp.swap_destination_amount
           /\ out.res.val.new_swap_destination_amount
                  = inp.swap_destination_amount - out.res.val.destination_amount_swapped
           /\ out.res.val.new_swap_destination_amount >= 0
    /\ QuoteAboveReserve => ~IsSome(out.res)

(* a constant-price swap priced above the destination reserve *)
C30_Witness ==
    /\ QuoteAboveReserve
    /\ IsConstantPrice
    /\ inp.swap_destination_amount > 0
    /\ ~IsSome(out.res)


===========================================================================
